---- MODULE Spec2Model ----
(***************************************************************************)
(* Video-Summarizer backend: the processing pipeline of one video job      *)
(* (Backend/services/pipeline.py) as a state machine.                      *)
(*                                                                         *)
(* A job is a document of the store (status, progress, error_message,      *)
(* current_action, processing_logs) plus the temporary files of the job.   *)
(* process_video is a coroutine; every statement sequence between two      *)
(* suspension points is one action.  _update_job is modelled once, as the  *)
(* two store writes it performs, and is "called" by the pipeline actions.  *)
(*                                                                         *)
(* Progress is kept in percent (0.05 is 5).  A log message is identified   *)
(* by the source line of the _update_job call that carries it.             *)
(*                                                                         *)
(* The LM client calls are synchronous inside their coroutines (they never *)
(* yield to the event loop), so a chunk transcription or a frame           *)
(* evaluation holds the loop from its start to its end: `blocking`.        *)
(* Blob uploads run in worker threads (asyncio.to_thread) and do suspend.  *)
(***************************************************************************)
EXTENDS Integers, Sequences, FiniteSets, TLC

\* ---------------------------------------------------------------- bounds
MaxJobs == 2
MaxChunks == 2
MaxFrames == 2
MaxHero == 4

\* ------------------------------------------------------ program constants
MAX_CONCURRENT_TRANSCRIBES == 2
MAX_CONCURRENT_VISION_TASKS == 2
MAX_CONCURRENT_UPLOADS == 3

Sources == {"drive", "youtube", "upload"}

\* status values in pipeline order; "failed" is written by the handler only
StatusOrder == <<"pending", "downloading", "extracting", "transcribing",
                 "analyzing", "synthesizing", "completed">>

\* texts of the exceptions the stages raise (str(e) in the handler)
ErrRead == "store read failed"
ErrDownload == "download failed"
ErrMedia == "media toolkit call failed"
ErrKeywordAnalyze == "analyze_transcript() got an unexpected keyword argument 'playlist_context'"
ErrKeywordSynth == "synthesize_results() got an unexpected keyword argument 'playlist_context'"
NoError == "<none>"

VARIABLES
    pc,             \* position of the coroutine of each job
    ret,            \* position _update_job returns to
    pending,        \* the `updates` argument of the running _update_job
    exc,            \* text of the exception raised in the try block
    status, progress, errorMessage, currentAction, logs,   \* the job document
    source,         \* video_source of the job document
    videoFile, audioFile, framesDir, chunkFiles,           \* temporary files
    cleanupErr,     \* removals of _cleanup that raised (printed, swallowed)
    tWait, tFly,    \* transcribe_chunk tasks: waiting for sem / holding it
    gWait, gFly,    \* evaluate_single_frame tasks
    uWait, uFly,    \* upload_single_frame tasks
    cues, rois,     \* audio cues found?  number of visual_rois entries
    cancelled,      \* the task of the job was cancelled
    blocking,       \* job whose coroutine holds the event loop, 0 if none
    finished,       \* tasks of the running gather that have finished
    outOfOrder,     \* some task finished before a task handed in earlier
    allSegments,    \* _transcribe_audio: chunks in the order they were flattened
    visualRois,     \* frames in the order their gate results were consumed
    frameAnalyses,  \* hero frames in the order their upload results were collected
    args, result    \* arguments and return value of a function applied on its own

ctl == <<pc, ret, pending, exc>>
doc == <<status, progress, errorMessage, currentAction, logs>>
files == <<videoFile, audioFile, framesDir, chunkFiles, cleanupErr>>
tasks == <<tWait, tFly, gWait, gFly, uWait, uFly>>
misc == <<source, cues, rois, cancelled, blocking>>
outs == <<finished, outOfOrder, allSegments, visualRois, frameAnalyses>>
fn == <<args, result>>
vars == <<ctl, doc, files, tasks, misc, outs, fn>>

Jobs == DOMAIN pc

\* ------------------------------------------------------------- helpers
Keep == "keep"
NoPatch == [status |-> Keep, progress |-> -1, error |-> Keep, msg |-> 0]

\* the dict handed to _update_job: status, progress, message (0: none)
Patch(s, p, m) == [status |-> s, progress |-> p, error |-> Keep, msg |-> m]

Min(S) == CHOOSE x \in S : \A y \in S : x <= y

Goto(j, l) ==
    /\ pc' = [pc EXCEPT ![j] = l]
    /\ UNCHANGED <<outs, fn, ret, pending, exc>>

\* an exception leaves the try block: control moves to the handler
Raise(j, e) ==
    /\ pc' = [pc EXCEPT ![j] = "except"]
    /\ exc' = [exc EXCEPT ![j] = e]
    /\ UNCHANGED <<outs, fn, ret, pending>>

\* await self._update_job(job_id, patch), continuing at r
CallUpdate(j, patch, r) ==
    /\ pc' = [pc EXCEPT ![j] = IF patch.msg # 0 THEN "update_push" ELSE "update_set"]
    /\ pending' = [pending EXCEPT ![j] = patch]
    /\ ret' = [ret EXCEPT ![j] = r]
    /\ UNCHANGED exc

At(j, l) == pc[j] = l /\ blocking = 0

InitJobs(J) ==
    /\ pc = [j \in J |-> "start"]
    /\ ret = [j \in J |-> "start"]
    /\ pending = [j \in J |-> NoPatch]
    /\ exc = [j \in J |-> NoError]
    /\ status = [j \in J |-> "pending"]
    /\ progress = [j \in J |-> 0]
    /\ errorMessage = [j \in J |-> NoError]
    /\ currentAction = [j \in J |-> 0]
    /\ logs = [j \in J |-> <<>>]
    /\ source \in [J -> Sources]
    /\ videoFile = [j \in J |-> source[j] = "upload"]
    /\ audioFile = [j \in J |-> FALSE]
    /\ framesDir = [j \in J |-> FALSE]
    /\ chunkFiles = [j \in J |-> 0]
    /\ cleanupErr = [j \in J |-> {}]
    /\ tWait = [j \in J |-> {}]
    /\ tFly = [j \in J |-> {}]
    /\ gWait = [j \in J |-> {}]
    /\ gFly = [j \in J |-> {}]
    /\ uWait = [j \in J |-> {}]
    /\ uFly = [j \in J |-> {}]
    /\ cues = [j \in J |-> FALSE]
    /\ rois = [j \in J |-> 0]
    /\ cancelled = [j \in J |-> FALSE]
    /\ blocking = 0
    /\ finished = [j \in J |-> {}]
    /\ outOfOrder = [j \in J |-> FALSE]
    /\ allSegments = [j \in J |-> <<>>]
    /\ visualRois = [j \in J |-> <<>>]
    /\ frameAnalyses = [j \in J |-> <<>>]

\* no function is applied on its own while jobs run
NoCall == args = <<>> /\ result = <<>>

Init == InitJobs({1}) /\ NoCall

\* ------------------------------------------------------- _update_job
\* first write: $push processing_logs, $set current_action
UpdateJobPush(j) ==
    /\ At(j, "update_push")
    /\ logs' = [logs EXCEPT ![j] = Append(@, pending[j].msg)]
    /\ currentAction' = [currentAction EXCEPT ![j] = pending[j].msg]
    /\ Goto(j, "update_set")
    /\ UNCHANGED <<outs, fn, status, progress, errorMessage, files, tasks, misc>>

\* second write: $set of the remaining fields
UpdateJobSet(j) ==
    /\ At(j, "update_set")
    /\ status' = [status EXCEPT ![j] =
                    IF pending[j].status = Keep THEN @ ELSE pending[j].status]
    /\ progress' = [progress EXCEPT ![j] =
                    IF pending[j].progress < 0 THEN @ ELSE pending[j].progress]
    /\ errorMessage' = [errorMessage EXCEPT ![j] =
                    IF pending[j].error = Keep THEN @ ELSE pending[j].error]
    /\ pc' = [pc EXCEPT ![j] = ret[j]]
    /\ pending' = [pending EXCEPT ![j] = NoPatch]
    /\ UNCHANGED <<outs, fn, ret, exc, currentAction, logs, files, tasks, misc>>

\* ------------------------------------------------- process_video, try block
\* job = await self._get_job(job_id); first status update
GetJob(j) ==
    /\ At(j, "start")
    /\ CallUpdate(j, Patch("downloading", 5, 54), "download")
    /\ UNCHANGED <<outs, fn, doc, files, tasks, misc>>

\* the find_one of _get_job raises
GetJobFails(j) ==
    /\ At(j, "start")
    /\ Raise(j, ErrRead)
    /\ UNCHANGED <<outs, fn, doc, files, tasks, misc>>

\* video_path = await self._download_video(job, video_source)
DownloadVideo(j) ==
    /\ At(j, "download")
    /\ videoFile' = [videoFile EXCEPT ![j] = TRUE]
    /\ CallUpdate(j, Patch(Keep, 10, 63), "probe")
    /\ UNCHANGED <<outs, fn, doc, audioFile, framesDir, chunkFiles, cleanupErr, tasks, misc>>

DownloadVideoFails(j) ==
    /\ At(j, "download")
    /\ source[j] # "upload"
    /\ Raise(j, ErrDownload)
    /\ UNCHANGED <<outs, fn, doc, files, tasks, misc>>

\* duration = get_video_duration(video_path); {"duration": duration}
GetVideoDuration(j) ==
    /\ At(j, "probe")
    /\ CallUpdate(j, Patch(Keep, -1, 0), "extracting")
    /\ UNCHANGED <<outs, fn, doc, files, tasks, misc>>

BeginExtract(j) ==
    /\ At(j, "extracting")
    /\ CallUpdate(j, Patch("extracting", 15, 73), "extract_audio")
    /\ UNCHANGED <<outs, fn, doc, files, tasks, misc>>

\* _extract_audio: ffmpeg.extract_audio, then {"audio_path": ...}
ExtractAudio(j) ==
    /\ At(j, "extract_audio")
    /\ audioFile' = [audioFile EXCEPT ![j] = TRUE]
    /\ CallUpdate(j, Patch(Keep, -1, 0), "audio_ready")
    /\ UNCHANGED <<outs, fn, doc, videoFile, framesDir, chunkFiles, cleanupErr, tasks, misc>>

ExtractAudioFails(j) ==
    /\ At(j, "extract_audio")
    /\ Raise(j, ErrMedia)
    /\ UNCHANGED <<outs, fn, doc, files, tasks, misc>>

\* variant: the milestone after audio extraction is published as 0.05
AudioReady_LowProgress(j) ==
    /\ At(j, "audio_ready")
    /\ CallUpdate(j, Patch(Keep, 5, 79), "transcribing")
    /\ UNCHANGED <<outs, fn, doc, files, tasks, misc>>

AudioReady(j) ==
    /\ At(j, "audio_ready")
    /\ CallUpdate(j, Patch(Keep, 25, 79), "transcribing")
    /\ UNCHANGED <<outs, fn, doc, files, tasks, misc>>

BeginTranscribe(j) ==
    /\ At(j, "transcribing")
    /\ CallUpdate(j, Patch("transcribing", 30, 85), "split_audio")
    /\ UNCHANGED <<outs, fn, doc, files, tasks, misc>>

\* variant: the semaphore admits one holder too many
SemFree_OffByOne(cap, holders) == Cardinality(holders) <= cap

\* asyncio.Semaphore(cap): `async with sem` enters while fewer than cap hold it
SemFree(cap, holders) == Cardinality(holders) < cap

\* task k of the running gather has finished
TaskDone(j, k) ==
    /\ finished' = [finished EXCEPT ![j] = @ \cup {k}]
    /\ outOfOrder' = [outOfOrder EXCEPT ![j] =
                        @ \/ \E i \in 1..(k - 1) : i \notin finished[j]]

\* the gather of the job is over and its results have been read
GatherOver(j) ==
    /\ finished' = [finished EXCEPT ![j] = {}]
    /\ outOfOrder' = [outOfOrder EXCEPT ![j] = FALSE]

\* await asyncio.gather(*tasks): the results come in the order of the tasks
\* handed in, whatever the order in which they finished
GatherResults(done) == [i \in 1..Cardinality(done) |-> i]

RECURSIVE SortByIndex(_)
\* sorted(results, key=lambda x: x[0]) on results that carry their index
SortByIndex(s) ==
    IF s = <<>> THEN <<>>
    ELSE LET m == Min({s[i] : i \in 1..Len(s)})
         IN <<m>> \o SortByIndex(SelectSeq(s, LAMBDA x : x # m))

\* _transcribe_audio: chunks = self.ffmpeg.split_audio(audio_path); tasks made
SplitAudio(j) ==
    /\ At(j, "split_audio")
    /\ \E n \in 0..MaxChunks :
        /\ chunkFiles' = [chunkFiles EXCEPT ![j] = n]
        /\ tWait' = [tWait EXCEPT ![j] = 1..n]
    /\ Goto(j, "gather_chunks")
    /\ UNCHANGED <<outs, fn, doc, videoFile, audioFile, framesDir, cleanupErr,
                   tFly, gWait, gFly, uWait, uFly, misc>>

\* a chunk's subprocess fails: the chunks written so far stay on disk
SplitAudioFails(j) ==
    /\ At(j, "split_audio")
    /\ \E n \in 0..(MaxChunks - 1) :
        chunkFiles' = [chunkFiles EXCEPT ![j] = n]
    /\ Raise(j, ErrMedia)
    /\ UNCHANGED <<outs, fn, doc, videoFile, audioFile, framesDir, cleanupErr, tasks, misc>>

\* transcribe_chunk enters `async with sem` and starts the LM call
TranscribeChunkBegin(j) ==
    /\ At(j, "gather_chunks")
    /\ tWait[j] # {}
    /\ SemFree(MAX_CONCURRENT_TRANSCRIBES, tFly[j])
    /\ LET k == Min(tWait[j]) IN
        /\ tWait' = [tWait EXCEPT ![j] = @ \ {k}]
        /\ tFly' = [tFly EXCEPT ![j] = @ \cup {k}]
    /\ blocking' = j
    /\ UNCHANGED <<outs, fn, ctl, doc, files, gWait, gFly, uWait, uFly,
                   source, cues, rois, cancelled>>

\* the LM call returns segments, or raises and [] is returned; sem released
TranscribeChunkEnd(j) ==
    /\ pc[j] = "gather_chunks"
    /\ blocking = j
    /\ \E k \in tFly[j] :
        /\ tFly' = [tFly EXCEPT ![j] = @ \ {k}]
        /\ TaskDone(j, k)
    /\ blocking' = 0
    /\ UNCHANGED <<allSegments, visualRois, frameAnalyses, fn, ctl, doc, files, tWait, gWait, gFly, uWait, uFly,
                   source, cues, rois, cancelled>>

\* after gather: chunk files removed (a removal may give up), dedup, update
FinishTranscribe(j) ==
    /\ At(j, "gather_chunks")
    /\ tWait[j] = {} /\ tFly[j] = {}
    /\ \E left \in 0..chunkFiles[j] :
        chunkFiles' = [chunkFiles EXCEPT ![j] = left]
    /\ allSegments' = [allSegments EXCEPT ![j] = GatherResults(finished[j])]
    /\ CallUpdate(j, Patch(Keep, 50, 91), "cue_scout")
    /\ UNCHANGED <<finished, outOfOrder, visualRois, frameAnalyses, fn, doc, videoFile, audioFile, framesDir, cleanupErr, tasks, misc>>

\* audio_cues = await gemini_service.detect_transcript_visual_cues(transcript)
\* (returns [] on any LM failure); {"audio_visual_cues": audio_cues}
DetectVisualCues(j) ==
    /\ At(j, "cue_scout")
    /\ \E c \in BOOLEAN : cues' = [cues EXCEPT ![j] = c]
    /\ GatherOver(j)
    /\ allSegments' = [allSegments EXCEPT ![j] = <<>>]
    /\ CallUpdate(j, Patch(Keep, -1, 0), "analyzing")
    /\ UNCHANGED <<visualRois, frameAnalyses, fn, doc, files, tasks, source, rois, cancelled, blocking>>

BeginAnalyze(j) ==
    /\ At(j, "analyzing")
    /\ CallUpdate(j, Patch("analyzing", 55, 104), "genre")
    /\ UNCHANGED <<outs, fn, doc, files, tasks, misc>>

\* classify_video_genre never raises (falls back to "unknown"); genre update
ClassifyGenre(j) ==
    /\ At(j, "genre")
    /\ CallUpdate(j, Patch(Keep, -1, 0), "analyze_transcript")
    /\ UNCHANGED <<outs, fn, doc, files, tasks, misc>>

\* gemini_service.analyze_transcript(..., playlist_context=playlist_context):
\* the method has no parameter playlist_context, the call raises TypeError
AnalyzeTranscript(j) ==
    /\ At(j, "analyze_transcript")
    /\ Raise(j, ErrKeywordAnalyze)
    /\ UNCHANGED <<outs, fn, doc, files, tasks, misc>>

\* ------------------------------------------------- process_video, handler
\* variant: the handler stores the status without the exception text
FailedPatch_NoText(e) == [status |-> "failed", progress |-> -1, error |-> Keep, msg |-> 0]

\* except Exception as e: _update_job({"status": "failed", "error_message": str(e)})
FailedPatch(e) == [status |-> "failed", progress |-> -1, error |-> e, msg |-> 0]

\* variant: the handler swallows the exception without writing to the store
HandleException_Swallow(j) ==
    /\ At(j, "except")
    /\ Goto(j, "done")
    /\ UNCHANGED <<outs, fn, doc, files, tasks, misc>>

HandleException(j) ==
    /\ At(j, "except")
    /\ CallUpdate(j, FailedPatch(exc[j]), "done")
    /\ UNCHANGED <<outs, fn, doc, files, tasks, misc>>

\* ------------------------------------------------------ specification
Next ==
    \/ \E j \in Jobs : UpdateJobPush(j)
    \/ \E j \in Jobs : UpdateJobSet(j)
    \/ \E j \in Jobs : GetJob(j)
    \/ \E j \in Jobs : GetJobFails(j)
    \/ \E j \in Jobs : DownloadVideo(j)
    \/ \E j \in Jobs : DownloadVideoFails(j)
    \/ \E j \in Jobs : GetVideoDuration(j)
    \/ \E j \in Jobs : BeginExtract(j)
    \/ \E j \in Jobs : ExtractAudio(j)
    \/ \E j \in Jobs : ExtractAudioFails(j)
    \/ \E j \in Jobs : AudioReady(j)
    \/ \E j \in Jobs : BeginTranscribe(j)
    \/ \E j \in Jobs : SplitAudio(j)
    \/ \E j \in Jobs : SplitAudioFails(j)
    \/ \E j \in Jobs : TranscribeChunkBegin(j)
    \/ \E j \in Jobs : TranscribeChunkEnd(j)
    \/ \E j \in Jobs : FinishTranscribe(j)
    \/ \E j \in Jobs : DetectVisualCues(j)
    \/ \E j \in Jobs : BeginAnalyze(j)
    \/ \E j \in Jobs : ClassifyGenre(j)
    \/ \E j \in Jobs : AnalyzeTranscript(j)
    \/ \E j \in Jobs : HandleException(j)

Spec == Init /\ [][Next]_vars

\* ---------------------------------------------------------------------
\* The statements of the try block behind the two keyword calls, as they
\* are written.  They run only if analyze_transcript / synthesize_results
\* accept playlist_context; NextFull adds them to Next.
\* ---------------------------------------------------------------------

\* transcript_analysis returned (its LM failures give {}); ad filter; update
AnalyzeTranscriptReturns(j) ==
    /\ At(j, "analyze_transcript")
    /\ CallUpdate(j, Patch(Keep, 60, 155), "frames")
    /\ UNCHANGED <<outs, fn, doc, files, tasks, misc>>

BeginFrames(j) ==
    /\ At(j, "frames")
    /\ CallUpdate(j, Patch(Keep, 65, 161), "extract_frames")
    /\ UNCHANGED <<outs, fn, doc, files, tasks, misc>>

\* _extract_frames: os.makedirs(frames_dir); one subprocess per boundary,
\* CalledProcessError skipped; gate tasks made
ExtractFrames(j) ==
    /\ At(j, "extract_frames")
    /\ framesDir' = [framesDir EXCEPT ![j] = TRUE]
    /\ \E n \in 0..MaxFrames : gWait' = [gWait EXCEPT ![j] = 1..n]
    /\ Goto(j, "gather_gate")
    /\ UNCHANGED <<outs, fn, doc, videoFile, audioFile, chunkFiles, cleanupErr,
                   tWait, tFly, gFly, uWait, uFly, misc>>

\* subprocess.TimeoutExpired is not caught by extract_keyframes
ExtractFramesFails(j) ==
    /\ At(j, "extract_frames")
    /\ framesDir' = [framesDir EXCEPT ![j] = TRUE]
    /\ Raise(j, ErrMedia)
    /\ UNCHANGED <<outs, fn, doc, videoFile, audioFile, chunkFiles, cleanupErr, tasks, misc>>

\* evaluate_single_frame enters `async with gate_sem`, starts the LM call
EvaluateFrameBegin(j) ==
    /\ At(j, "gather_gate")
    /\ gWait[j] # {}
    /\ SemFree(MAX_CONCURRENT_VISION_TASKS, gFly[j])
    /\ LET k == Min(gWait[j]) IN
        /\ gWait' = [gWait EXCEPT ![j] = @ \ {k}]
        /\ gFly' = [gFly EXCEPT ![j] = @ \cup {k}]
    /\ blocking' = j
    /\ UNCHANGED <<outs, fn, ctl, doc, files, tWait, tFly, uWait, uFly,
                   source, cues, rois, cancelled>>

\* evaluate_frame_content returns (error result on failure); one more
\* visual_rois entry whatever is_useful says
EvaluateFrameEnd(j) ==
    /\ pc[j] = "gather_gate"
    /\ blocking = j
    /\ \E k \in gFly[j] :
        /\ gFly' = [gFly EXCEPT ![j] = @ \ {k}]
        /\ TaskDone(j, k)
    /\ rois' = [rois EXCEPT ![j] = @ + 1]
    /\ blocking' = 0
    /\ UNCHANGED <<allSegments, visualRois, frameAnalyses, fn, ctl, doc, files, tWait, tFly, gWait, uWait, uFly,
                   source, cues, cancelled>>

\* merge_time_windows returns [] iff there is no cue and no visual_rois entry
WindowsEmpty(j) == ~cues[j] /\ rois[j] = 0

\* ROI fusion, dense sampling when there are windows, update (0.7)
FuseAndSample(j) ==
    /\ At(j, "gather_gate")
    /\ gWait[j] = {} /\ gFly[j] = {}
    /\ cues' = [cues EXCEPT ![j] = FALSE]
    /\ rois' = [rois EXCEPT ![j] = 0]
    /\ visualRois' = [visualRois EXCEPT ![j] =
                        SortByIndex(GatherResults(finished[j]))]
    /\ CallUpdate(j, Patch(Keep, 70, 239), "cluster")
    /\ UNCHANGED <<finished, outOfOrder, allSegments, frameAnalyses, fn, doc, files, tasks, source, cancelled, blocking>>

\* extract_dense_frames lets subprocess.TimeoutExpired through
DenseSamplingFails(j) ==
    /\ At(j, "gather_gate")
    /\ gWait[j] = {} /\ gFly[j] = {}
    /\ ~WindowsEmpty(j)
    /\ cues' = [cues EXCEPT ![j] = FALSE]
    /\ rois' = [rois EXCEPT ![j] = 0]
    /\ GatherOver(j)
    /\ Raise(j, ErrMedia)
    /\ UNCHANGED <<allSegments, visualRois, frameAnalyses, fn, doc, files, tasks,
                   source, cancelled, blocking>>

\* ImageProcessor.cluster_frames(frames, threshold=12); update (0.75)
ClusterFrames(j) ==
    /\ At(j, "cluster")
    /\ GatherOver(j)
    /\ visualRois' = [visualRois EXCEPT ![j] = <<>>]
    /\ CallUpdate(j, Patch(Keep, 75, 273), "hero")
    /\ UNCHANGED <<allSegments, frameAnalyses, fn, doc, files, tasks, misc>>

\* analyze_frame_clusters gives the visual_subtopics; create_folder succeeds
\* and the folder id is stored
AnalyzeFrameClusters(j) ==
    /\ At(j, "hero")
    /\ \E n \in 0..MaxHero : uWait' = [uWait EXCEPT ![j] = 1..n]
    /\ CallUpdate(j, Patch(Keep, -1, 295), "gather_uploads")
    /\ UNCHANGED <<outs, fn, doc, files, tWait, tFly, gWait, gFly, uFly, misc>>

\* create_folder raises: caught, folder_id falls back to DRIVE_FOLDER_ID
CreateFolderFails(j) ==
    /\ At(j, "hero")
    /\ \E n \in 0..MaxHero : uWait' = [uWait EXCEPT ![j] = 1..n]
    /\ Goto(j, "gather_uploads")
    /\ UNCHANGED <<outs, fn, doc, files, tWait, tFly, gWait, gFly, uFly, misc>>

\* upload_single_frame enters `async with upload_sem`; the frame file exists
\* and drive_service.upload_file starts in a worker thread
UploadFrameBegin(j) ==
    /\ At(j, "gather_uploads")
    /\ uWait[j] # {}
    /\ SemFree(MAX_CONCURRENT_UPLOADS, uFly[j])
    /\ LET k == Min(uWait[j]) IN
        /\ uWait' = [uWait EXCEPT ![j] = @ \ {k}]
        /\ uFly' = [uFly EXCEPT ![j] = @ \cup {k}]
    /\ UNCHANGED <<outs, fn, ctl, doc, files, tWait, tFly, gWait, gFly, misc>>

\* the frame file does not exist: nothing is uploaded, drive_url stays None
UploadFrameSkip(j) ==
    /\ At(j, "gather_uploads")
    /\ uWait[j] # {}
    /\ SemFree(MAX_CONCURRENT_UPLOADS, uFly[j])
    /\ uWait' = [uWait EXCEPT ![j] = @ \ {Min(@)}]
    /\ TaskDone(j, Min(uWait[j]))
    /\ UNCHANGED <<allSegments, visualRois, frameAnalyses, fn, ctl, doc, files, tWait, tFly, gWait, gFly, uFly, misc>>

\* the upload thread returns or raises (caught); the semaphore is released
UploadFrameEnd(j) ==
    /\ At(j, "gather_uploads")
    /\ \E k \in uFly[j] :
        /\ uFly' = [uFly EXCEPT ![j] = @ \ {k}]
        /\ TaskDone(j, k)
    /\ UNCHANGED <<allSegments, visualRois, frameAnalyses, fn, ctl, doc, files, tWait, tFly, gWait, gFly, uWait, misc>>

\* variant: the upload results are sorted with reverse=True
UploadsDone_Reversed(j) ==
    /\ At(j, "gather_uploads")
    /\ uWait[j] = {} /\ uFly[j] = {}
    /\ frameAnalyses' = [frameAnalyses EXCEPT ![j] =
            [i \in 1..Cardinality(finished[j]) |-> Cardinality(finished[j]) + 1 - i]]
    /\ CallUpdate(j, Patch(Keep, 85, 355), "synthesizing")
    /\ UNCHANGED <<finished, outOfOrder, allSegments, visualRois, fn, doc, files, tasks, misc>>

\* variant: the stage goes on once every upload task has been started
UploadsDone_NoWait(j) ==
    /\ At(j, "gather_uploads")
    /\ uWait[j] = {}
    /\ frameAnalyses' = [frameAnalyses EXCEPT ![j] =
                            SortByIndex(GatherResults(finished[j]))]
    /\ CallUpdate(j, Patch(Keep, 85, 355), "synthesizing")
    /\ UNCHANGED <<finished, outOfOrder, allSegments, visualRois, fn, doc, files, tasks, misc>>

\* gather returned: frame_analyses collected in index order; update (0.85)
UploadsDone(j) ==
    /\ At(j, "gather_uploads")
    /\ uWait[j] = {} /\ uFly[j] = {}
    /\ frameAnalyses' = [frameAnalyses EXCEPT ![j] =
                            SortByIndex(GatherResults(finished[j]))]
    /\ CallUpdate(j, Patch(Keep, 85, 355), "synthesizing")
    /\ UNCHANGED <<finished, outOfOrder, allSegments, visualRois, fn, doc, files, tasks, misc>>

BeginSynthesize(j) ==
    /\ At(j, "synthesizing")
    /\ GatherOver(j)
    /\ CallUpdate(j, Patch("synthesizing", 90, 362), "synthesize")
    /\ UNCHANGED <<allSegments, visualRois, frameAnalyses, fn, doc, files, tasks, misc>>

\* gemini_service.synthesize_results(..., playlist_context=playlist_context):
\* no such parameter, TypeError
SynthesizeResults(j) ==
    /\ At(j, "synthesize")
    /\ Raise(j, ErrKeywordSynth)
    /\ UNCHANGED <<outs, fn, doc, files, tasks, misc>>

\* synthesis returned; ad cleanup; map_visuals_to_topics; update (0.95)
SynthesizeReturns(j) ==
    /\ At(j, "synthesize")
    /\ CallUpdate(j, Patch(Keep, 95, 398), "slides")
    /\ UNCHANGED <<outs, fn, doc, files, tasks, misc>>

\* slide summary (failure swallowed), _build_topics, final update
FinalUpdate(j) ==
    /\ At(j, "slides")
    /\ CallUpdate(j, Patch("completed", 100, 426), "cleanup")
    /\ UNCHANGED <<outs, fn, doc, files, tasks, misc>>

\* variant: cleanup also removes the extracted audio file
Cleanup_RemovesAudio(j) ==
    /\ At(j, "cleanup")
    /\ \E failed \in SUBSET {"video", "frames"} :
        /\ (source[j] = "upload" \/ ~videoFile[j]) => "video" \notin failed
        /\ ~framesDir[j] => "frames" \notin failed
        /\ cleanupErr' = [cleanupErr EXCEPT ![j] = failed]
        /\ videoFile' = [videoFile EXCEPT ![j] =
                IF source[j] # "upload" /\ "video" \notin failed THEN FALSE ELSE @]
        /\ framesDir' = [framesDir EXCEPT ![j] =
                IF "frames" \notin failed THEN FALSE ELSE @]
    /\ audioFile' = [audioFile EXCEPT ![j] = FALSE]
    /\ Goto(j, "done")
    /\ UNCHANGED <<outs, fn, doc, chunkFiles, tasks, misc>>

\* _cleanup: job read; the video is removed unless the source is "upload",
\* the frames directory is removed; a removal that raises is printed only
Cleanup(j) ==
    /\ At(j, "cleanup")
    /\ \E failed \in SUBSET {"video", "frames"} :
        /\ (source[j] = "upload" \/ ~videoFile[j]) => "video" \notin failed
        /\ ~framesDir[j] => "frames" \notin failed
        /\ cleanupErr' = [cleanupErr EXCEPT ![j] = failed]
        /\ videoFile' = [videoFile EXCEPT ![j] =
                IF source[j] # "upload" /\ "video" \notin failed THEN FALSE ELSE @]
        /\ framesDir' = [framesDir EXCEPT ![j] =
                IF "frames" \notin failed THEN FALSE ELSE @]
    /\ Goto(j, "done")
    /\ UNCHANGED <<outs, fn, doc, audioFile, chunkFiles, tasks, misc>>

\* the find_one of _cleanup's _get_job raises inside the try block
CleanupReadFails(j) ==
    /\ At(j, "cleanup")
    /\ Raise(j, ErrRead)
    /\ UNCHANGED <<outs, fn, doc, files, tasks, misc>>

NextFull ==
    \/ Next
    \/ \E j \in Jobs : AnalyzeTranscriptReturns(j)
    \/ \E j \in Jobs : BeginFrames(j)
    \/ \E j \in Jobs : ExtractFrames(j)
    \/ \E j \in Jobs : ExtractFramesFails(j)
    \/ \E j \in Jobs : EvaluateFrameBegin(j)
    \/ \E j \in Jobs : EvaluateFrameEnd(j)
    \/ \E j \in Jobs : FuseAndSample(j)
    \/ \E j \in Jobs : DenseSamplingFails(j)
    \/ \E j \in Jobs : ClusterFrames(j)
    \/ \E j \in Jobs : AnalyzeFrameClusters(j)
    \/ \E j \in Jobs : CreateFolderFails(j)
    \/ \E j \in Jobs : UploadFrameBegin(j)
    \/ \E j \in Jobs : UploadFrameSkip(j)
    \/ \E j \in Jobs : UploadFrameEnd(j)
    \/ \E j \in Jobs : UploadsDone(j)
    \/ \E j \in Jobs : BeginSynthesize(j)
    \/ \E j \in Jobs : SynthesizeResults(j)
    \/ \E j \in Jobs : SynthesizeReturns(j)
    \/ \E j \in Jobs : FinalUpdate(j)
    \/ \E j \in Jobs : Cleanup(j)
    \/ \E j \in Jobs : CleanupReadFails(j)

SpecFull == Init /\ [][NextFull]_vars

\* liveness: the event loop runs every ready coroutine, every external call
\* returns or raises
SpecFullLive == SpecFull /\ WF_vars(NextFull)

\* several jobs created by POST /videos/process (Drive jobs), each started
\* with background_tasks.add_task(pipeline.process_video, job_id)
InitMany ==
    /\ InitJobs(1..MaxJobs)
    /\ NoCall
    /\ \A j \in 1..MaxJobs : source[j] = "drive"

SpecJobs == InitMany /\ [][NextFull]_vars

\* ------------------------------------------------------- cancellation
\* The task running process_video is cancelled while it is suspended:
\* asyncio.CancelledError is a BaseException, `except Exception` does not
\* catch it, the coroutine ends without another store write.
Cancel(j) ==
    /\ pc[j] # "done"
    /\ blocking = 0
    /\ cancelled' = [cancelled EXCEPT ![j] = TRUE]
    /\ pc' = [pc EXCEPT ![j] = "done"]
    /\ pending' = [pending EXCEPT ![j] = NoPatch]
    /\ tWait' = [tWait EXCEPT ![j] = {}]
    /\ gWait' = [gWait EXCEPT ![j] = {}]
    /\ uWait' = [uWait EXCEPT ![j] = {}]
    /\ uFly' = [uFly EXCEPT ![j] = {}]
    /\ UNCHANGED <<outs, fn, ret, exc, doc, files, tFly, gFly, source, cues, rois, blocking>>

NextCancel ==
    \/ Next
    \/ \E j \in Jobs : Cancel(j)

SpecCancel == Init /\ [][NextCancel]_vars

\* =====================================================================
\* Properties
\* =====================================================================
Terminal == {"completed", "failed"}

Rank(s) == CHOOSE i \in 1..Len(StatusOrder) : StatusOrder[i] = s

Ended(j) == pc[j] = "done"

RECURSIVE InFlight(_, _)
\* number of tasks holding a semaphore, summed over the jobs of S
InFlight(fly, S) ==
    IF S = {} THEN 0
    ELSE LET j == CHOOSE x \in S : TRUE
         IN Cardinality(fly[j]) + InFlight(fly, S \ {j})

\* C1: the stored status of a job only moves to the next value of the chain
\* pending, downloading, extracting, transcribing, analyzing, synthesizing,
\* completed, or to failed; and a run in which a stage raised ends with
\* status failed and error_message equal to the text of the exception.
C1_StatusMovesForward ==
    /\ [][\A j \in Jobs :
            status'[j] # status[j] =>
                /\ status[j] # "failed"
                /\ \/ status'[j] = "failed"
                   \/ /\ status[j] # "completed"
                      /\ status'[j] = StatusOrder[Rank(status[j]) + 1]]_vars
    /\ [](\A j \in Jobs :
            (Ended(j) /\ exc[j] # NoError) =>
                status[j] = "failed" /\ errorMessage[j] = exc[j])

\* a run that advanced to analyzing, raised there and ended failed
C1_Witness ==
    \E j \in Jobs :
        /\ Ended(j)
        /\ exc[j] = ErrKeywordAnalyze
        /\ status[j] = "failed"
        /\ errorMessage[j] = ErrKeywordAnalyze
        /\ Len(logs[j]) = 7

\* C2: no store write of a run lowers the progress of its job.
C2_ProgressMonotone ==
    [][\A j \in Jobs : progress'[j] >= progress[j]]_vars

\* a failure path: the audio split raised after 0.3 was published, the
\* handler has written failed and the progress published last is still there
C2_Witness ==
    \E j \in Jobs :
        Ended(j) /\ status[j] = "failed" /\ exc[j] = ErrMedia /\ progress[j] = 30

\* C3: once completed or failed is stored, no later step of the run changes
\* the status of the job.
C3_TerminalIsFinal ==
    [][\A j \in Jobs : status[j] \in Terminal => status'[j] = status[j]]_vars

\* C4: every run ends, and ends with completed or failed stored.
C4_TerminalPersisted ==
    <>[](\A j \in Jobs : Ended(j) /\ status[j] \in Terminal)

\* a run ended by the handler after a stage raised
C4_Witness ==
    \E j \in Jobs :
        Ended(j) /\ exc[j] = ErrDownload /\ status[j] = "failed" /\ progress[j] = 5

\* C5: a run in which the store reads, the video acquisition and the media
\* toolkit steps all succeed ends completed.
C5_CompletesDespiteLM ==
    \A j \in Jobs :
        (Ended(j) /\ exc[j] \notin {ErrRead, ErrDownload, ErrMedia}) =>
            status[j] = "completed"

\* C6: when a run has ended with a terminal status, the downloaded video,
\* the frames directory and the audio chunk files of the job are gone.
C6_TempFilesReleased ==
    \A j \in Jobs :
        (Ended(j) /\ status[j] \in Terminal) =>
            /\ source[j] # "upload" => ~videoFile[j]
            /\ ~framesDir[j]
            /\ chunkFiles[j] = 0

C8_CancelledEndsFailed ==
    \A j \in Jobs :
        (cancelled[j] /\ Ended(j)) =>
            status[j] = "failed" /\ errorMessage[j] = "cancelled"

C10_ProcessWideCaps ==
    /\ InFlight(uFly, Jobs) <= MAX_CONCURRENT_UPLOADS
    /\ InFlight(tFly, Jobs) <= MAX_CONCURRENT_TRANSCRIBES
    /\ InFlight(gFly, Jobs) <= MAX_CONCURRENT_VISION_TASKS

Increasing(s) == \A a, b \in 1..Len(s) : a < b => s[a] < s[b]

AfterUploads ==
    {"synthesizing", "synthesize", "slides", "cleanup"}

\* C12: past a fan-out no task of it is waiting or in flight: none of the
\* transcriptions once the segments are flattened, none of the gate
\* evaluations once ROI fusion has run, none of the uploads once the run
\* is at synthesis or later.
C12_StageAfterAllTasks ==
    \A j \in Jobs :
        /\ pc[j] # "gather_chunks" => tWait[j] = {} /\ tFly[j] = {}
        /\ pc[j] # "gather_gate" => gWait[j] = {} /\ gFly[j] = {}
        /\ (pc[j] \in AfterUploads \/ ret[j] \in AfterUploads) =>
                uWait[j] = {} /\ uFly[j] = {}

\* synthesis is about to start after four uploads, none of them in flight
C12_Witness ==
    \E j \in Jobs :
        /\ pc[j] = "synthesize"
        /\ Len(frameAnalyses[j]) = MaxHero
        /\ uFly[j] = {}

\* =====================================================================
\* Functions applied on their own: args holds the arguments, result is <<>>
\* before the call and <<value>> after it.  No job runs meanwhile.
\* =====================================================================
NoJobs == InitJobs({})

Called == result # <<>>

Returned == result[1]

Max2(a, b) == IF a >= b THEN a ELSE b

Min2(a, b) == IF a <= b THEN a ELSE b

\* every sequence over S of length at most n
SeqsUpTo(S, n) == UNION {[1..k -> S] : k \in 0..n}

\* ------------------------------------------- roi_utils.merge_time_windows
MaxEvents == 3
MaxTime == 6

RECURSIVE InsertByStart(_, _)
\* position kept by the stable list.sort(key=lambda x: x[0])
InsertByStart(w, ws) ==
    IF ws = <<>> THEN <<w>>
    ELSE IF w[1] < Head(ws)[1] THEN <<w>> \o ws
    ELSE <<Head(ws)>> \o InsertByStart(w, Tail(ws))

RECURSIVE SortByStart(_)
SortByStart(ws) ==
    IF ws = <<>> THEN <<>>
    ELSE InsertByStart(ws[Len(ws)], SortByStart(SubSeq(ws, 1, Len(ws) - 1)))

\* variant: windows that start exactly min_gap after the tail are not merged
MergeLoop_StrictGap(merged, ws, min_gap) ==
    LET RECURSIVE Go(_, _)
        Go(m, rest) ==
            IF rest = <<>> THEN m
            ELSE LET cur == Head(rest)
                     last == m[Len(m)]
                 IN IF cur[1] < last[2] + min_gap
                    THEN Go([m EXCEPT ![Len(m)] = <<last[1], Max2(last[2], cur[2])>>],
                            Tail(rest))
                    ELSE Go(Append(m, cur), Tail(rest))
    IN Go(merged, ws)

RECURSIVE MergeLoop(_, _, _)
\* for current_start, current_end in windows[1:]: merge into merged[-1] or append
MergeLoop(merged, ws, min_gap) ==
    IF ws = <<>> THEN merged
    ELSE LET cur == Head(ws)
             last == merged[Len(merged)]
         IN IF cur[1] <= last[2] + min_gap
            THEN MergeLoop([merged EXCEPT ![Len(merged)] =
                                <<last[1], Max2(last[2], cur[2])>>],
                           Tail(ws), min_gap)
            ELSE MergeLoop(Append(merged, cur), Tail(ws), min_gap)

\* timestamps: the numeric timestamps of the audio cues followed by those of
\* the visual ROIs
merge_time_windows(timestamps, total_duration, buffer_seconds, min_gap) ==
    IF timestamps = <<>> THEN <<>>
    ELSE LET windows == SortByStart(
                 [i \in 1..Len(timestamps) |->
                     <<Max2(0, timestamps[i] - buffer_seconds),
                       Min2(total_duration, timestamps[i] + buffer_seconds)>>])
         IN MergeLoop(<<windows[1]>>, Tail(windows), min_gap)

InitMerge ==
    /\ NoJobs
    /\ args \in [timestamps : SeqsUpTo(0..MaxTime, MaxEvents),
                 total_duration : 0..4,
                 buffer_seconds : 1..2,
                 min_gap : 0..1]
    /\ result = <<>>

CallMerge ==
    /\ ~Called
    /\ result' = <<merge_time_windows(args.timestamps, args.total_duration,
                                      args.buffer_seconds, args.min_gap)>>
    /\ UNCHANGED <<ctl, doc, files, tasks, misc, outs, args>>

SpecMerge == InitMerge /\ [][CallMerge]_vars

\* C13: the windows returned are sorted by start, pairwise disjoint, and
\* every input timestamp lies inside exactly one of them.
C13_WindowsCoverEvents ==
    Called =>
        LET ws == Returned IN
        /\ \A a, b \in 1..Len(ws) : a < b => ws[a][1] <= ws[b][1]
        /\ \A a, b \in 1..Len(ws) : a < b => ws[a][2] < ws[b][1]
        /\ \A i \in 1..Len(args.timestamps) :
              Cardinality({a \in 1..Len(ws) :
                    /\ ws[a][1] <= args.timestamps[i]
                    /\ args.timestamps[i] <= ws[a][2]}) = 1

\* ------------------------------- ProcessingPipeline._deduplicate_segments
MaxSegs == 3
SegTimes == {0, 2, 3, 4, 8}
TextLens == {1, 2}

\* a TranscriptSegment: start_time, end_time and len(text)
Segments ==
    {[start_time |-> a, end_time |-> b, text |-> t] :
        a \in SegTimes, b \in SegTimes, t \in TextLens}

RECURSIVE InsertByStartTime(_, _)
InsertByStartTime(x, xs) ==
    IF xs = <<>> THEN <<x>>
    ELSE IF x.start_time < Head(xs).start_time THEN <<x>> \o xs
    ELSE <<Head(xs)>> \o InsertByStartTime(x, Tail(xs))

RECURSIVE SortByStartTime(_)
\* sorted(segments, key=lambda x: x.start_time), stable
SortByStartTime(xs) ==
    IF xs = <<>> THEN <<>>
    ELSE InsertByStartTime(xs[Len(xs)], SortByStartTime(SubSeq(xs, 1, Len(xs) - 1)))

\* max(0, min(end, end) - max(start, start))
OverlapDuration(a, b) ==
    Max2(0, Min2(a.end_time, b.end_time) - Max2(a.start_time, b.start_time))

Duration(a) == a.end_time - a.start_time

\* duration > 0 and overlap / duration > 0.7
HighOverlap(overlap, duration) == duration > 0 /\ 10 * overlap > 7 * duration

RECURSIVE DedupLoop(_, _)
\* for seg in sorted_segments[1:]: skip, replace the last, merge into it, or append
DedupLoop(deduplicated, rest) ==
    IF rest = <<>> THEN deduplicated
    ELSE LET seg == Head(rest)
             n == Len(deduplicated)
             last_seg == deduplicated[n]
             overlap == OverlapDuration(seg, last_seg)
             gap == seg.start_time - last_seg.end_time
         IN IF \/ HighOverlap(overlap, Duration(last_seg))
               \/ HighOverlap(overlap, Duration(seg))
            THEN IF seg.text > last_seg.text \/ Duration(seg) > Duration(last_seg)
                 THEN DedupLoop([deduplicated EXCEPT ![n] = seg], Tail(rest))
                 ELSE DedupLoop(deduplicated, Tail(rest))
            ELSE IF gap < 2 /\ gap > -2
            THEN DedupLoop([deduplicated EXCEPT ![n] =
                                [start_time |-> last_seg.start_time,
                                 end_time |-> Max2(last_seg.end_time, seg.end_time),
                                 text |-> last_seg.text + 1 + seg.text]],
                           Tail(rest))
            ELSE DedupLoop(Append(deduplicated, seg), Tail(rest))

_deduplicate_segments(segments) ==
    IF segments = <<>> THEN <<>>
    ELSE LET sorted_segments == SortByStartTime(segments)
         IN DedupLoop(<<sorted_segments[1]>>, Tail(sorted_segments))

InitDedup ==
    /\ NoJobs
    /\ args \in SeqsUpTo({x \in Segments : x.start_time <= x.end_time}, MaxSegs)
    /\ result = <<>>

CallDedup ==
    /\ ~Called
    /\ result' = <<_deduplicate_segments(args)>>
    /\ UNCHANGED <<ctl, doc, files, tasks, misc, outs, args>>

SpecDedup == InitDedup /\ [][CallDedup]_vars

\* C14: the transcript returned is sorted by start time, no two of its
\* segments overlap by more than 70% of either one's length, and no two
\* consecutive segments are less than 2 s apart.
C14_TranscriptClean ==
    Called =>
        LET T == Returned IN
        /\ \A a, b \in 1..Len(T) : a < b => T[a].start_time <= T[b].start_time
        /\ \A a, b \in 1..Len(T) : a < b =>
              /\ ~HighOverlap(OverlapDuration(T[a], T[b]), Duration(T[a]))
              /\ ~HighOverlap(OverlapDuration(T[a], T[b]), Duration(T[b]))
        /\ \A a \in 1..(Len(T) - 1) :
              LET gap == T[a + 1].start_time - T[a].end_time
              IN ~(gap < 2 /\ gap > -2)

\* ---------------------------------------------- the topics of the report
\* An "HH:MM:SS" string is the tuple <<h, m, s>>.
timestamp_to_seconds(ts) == ts[1] * 3600 + ts[2] * 60 + ts[3]

seconds_to_timestamp(sec) == <<sec \div 3600, (sec % 3600) \div 60, sec % 60>>

\* Optional[str] = None
None == <<>>

\* str.lower() on the titles used here
Lower(title) ==
    CASE title = "Sponsor: Acme" -> "sponsor: acme"
      [] title = "Our SPONSORS" -> "our sponsors"
      [] title = "Intro" -> "intro"
      [] title = "Demo" -> "demo"

\* "sponsor" in s, for the lowered titles
ContainsSponsor(s) == s \in {"sponsor: acme", "our sponsors"}

\* variant: the title is searched without lowering it
AdFilter_CaseSensitive(topics) ==
    SelectSeq(topics, LAMBDA t : t.type # "ad" /\ ~ContainsSponsor(t.title))

\* [t for t in topics if t.get("type", "content") != "ad"
\*                      and "sponsor" not in t.get("title", "").lower()]
AdFilter(topics) ==
    SelectSeq(topics, LAMBDA t : t.type # "ad" /\ ~ContainsSponsor(Lower(t.title)))

RECURSIVE InsertByTopicStart(_, _)
InsertByTopicStart(x, xs) ==
    IF xs = <<>> THEN <<x>>
    ELSE IF timestamp_to_seconds(x.timestamp_range[1])
              < timestamp_to_seconds(Head(xs).timestamp_range[1])
         THEN <<x>> \o xs
         ELSE <<Head(xs)>> \o InsertByTopicStart(x, Tail(xs))

RECURSIVE SortByTopicStart(_)
SortByTopicStart(xs) ==
    IF xs = <<>> THEN <<>>
    ELSE InsertByTopicStart(xs[Len(xs)], SortByTopicStart(SubSeq(xs, 1, Len(xs) - 1)))

RECURSIVE DedupTopicsLoop(_, _)
DedupTopicsLoop(deduplicated, rest) ==
    IF rest = <<>> THEN deduplicated
    ELSE LET topic == Head(rest)
             start_ts == timestamp_to_seconds(topic.timestamp_range[1])
             end_ts == timestamp_to_seconds(topic.timestamp_range[2])
         IN IF deduplicated = <<>>
            THEN DedupTopicsLoop(<<topic>>, Tail(rest))
            ELSE LET n == Len(deduplicated)
                     last_topic == deduplicated[n]
                     last_start == timestamp_to_seconds(last_topic.timestamp_range[1])
                     last_end == timestamp_to_seconds(last_topic.timestamp_range[2])
                     overlap_duration ==
                         Max2(0, Min2(end_ts, last_end) - Max2(start_ts, last_start))
                 IN IF HighOverlap(overlap_duration, last_end - last_start)
                    THEN IF topic.key_points > last_topic.key_points
                         THEN DedupTopicsLoop([deduplicated EXCEPT ![n] = topic], Tail(rest))
                         ELSE DedupTopicsLoop(deduplicated, Tail(rest))
                    ELSE DedupTopicsLoop(Append(deduplicated, topic), Tail(rest))

\* GeminiService._deduplicate_topics (duration is not used by the code)
_deduplicate_topics(topics, duration) ==
    IF topics = <<>> THEN <<>> ELSE DedupTopicsLoop(<<>>, SortByTopicStart(topics))

\* analyze_transcript: the topics the LM gave, deduplicated only on the
\* chunked path (transcript longer than 50000 characters)
analyze_transcript(chunked, lm_topics, duration) ==
    IF chunked THEN _deduplicate_topics(lm_topics, duration) ELSE lm_topics

\* variant: the preservation threshold is compared the other way round
synthesize_results_Inverted(all_topics, lm) ==
    IF lm.kind = "raises" THEN all_topics
    ELSE LET got == IF lm.kind = "parsed" THEN lm.topics ELSE <<>>
             synthesized_topics ==
                 IF 10 * Len(got) > 8 * Len(all_topics) THEN all_topics ELSE got
         IN IF synthesized_topics # <<>> THEN synthesized_topics ELSE all_topics

\* synthesize_results, the "topics" of its return value.  lm is what the LM
\* call came to: kind "parsed" with topics, "unparsable" (result None), or
\* "raises" (after the retries)
synthesize_results(all_topics, lm) ==
    IF lm.kind = "raises" THEN all_topics
    ELSE LET got == IF lm.kind = "parsed" THEN lm.topics ELSE <<>>
             synthesized_topics ==
                 IF 10 * Len(got) < 8 * Len(all_topics) THEN all_topics ELSE got
         IN IF synthesized_topics # <<>> THEN synthesized_topics ELSE all_topics

\* ------------------------------------------ ProcessingPipeline._build_topics
\* sub_ts is None
NoTimestamp == -1

Abs(x) == IF x < 0 THEN -x ELSE x

\* Frame(...) built from a frame analysis
FrameOf(fa, frame_number) ==
    [timestamp |-> seconds_to_timestamp(fa.timestamp),
     frame_number |-> frame_number,
     drive_url |-> fa.drive_url]

RECURSIVE FramesInRange(_, _, _, _)
\* for analysis in frame_analyses: if start_seconds <= frame_ts <= end_seconds
FramesInRange(frame_analyses, start_seconds, end_seconds, topic_frames) ==
    IF frame_analyses = <<>> THEN topic_frames
    ELSE LET fa == Head(frame_analyses)
         IN FramesInRange(Tail(frame_analyses), start_seconds, end_seconds,
                IF start_seconds <= fa.timestamp /\ fa.timestamp <= end_seconds
                THEN Append(topic_frames, FrameOf(fa, Len(topic_frames)))
                ELSE topic_frames)

RECURSIVE ClosestFrame(_, _, _, _, _)
\* closest_diff = 2.0; for fa in frame_analyses: if diff < closest_diff: ...
\* returns the position of closest_frame, 0 for None
ClosestFrame(frame_analyses, i, sub_ts, closest_diff, closest_frame) ==
    IF i > Len(frame_analyses) THEN closest_frame
    ELSE LET diff == Abs(frame_analyses[i].timestamp - sub_ts)
         IN IF diff < closest_diff
            THEN ClosestFrame(frame_analyses, i + 1, sub_ts, diff, i)
            ELSE ClosestFrame(frame_analyses, i + 1, sub_ts, closest_diff, closest_frame)

\* for fa in frame_analyses: if fa.get("drive_url") == img_url: matched_fa = fa; break
FirstWithUrl(frame_analyses, img_url) ==
    LET hits == {i \in 1..Len(frame_analyses) : frame_analyses[i].drive_url = img_url}
    IN IF hits = {} THEN 0 ELSE Min(hits)

RECURSIVE SubTopicsLoop_NoExistsCheck(_, _, _, _)
\* variant: the matched frame is appended without looking for it in
\* topic_frames first
SubTopicsLoop_NoExistsCheck(subs, frame_analyses, topic_frames, sub_topics_instances) ==
    IF subs = <<>>
    THEN [frames |-> topic_frames, sub_topics |-> sub_topics_instances]
    ELSE LET sub == Head(subs)
             search == sub.image_url = None /\ sub.frame_timestamp # NoTimestamp
             matched_fa ==
                 IF search
                 THEN ClosestFrame(frame_analyses, 1, sub.frame_timestamp, 2, 0)
                 ELSE IF sub.image_url # None
                 THEN FirstWithUrl(frame_analyses, sub.image_url)
                 ELSE 0
             img_url ==
                 IF search /\ matched_fa # 0
                 THEN frame_analyses[matched_fa].drive_url
                 ELSE sub.image_url
             exists ==
                 matched_fa # 0 /\
                 \E k \in 1..Len(topic_frames) :
                     topic_frames[k].drive_url = frame_analyses[matched_fa].drive_url
         IN SubTopicsLoop_NoExistsCheck(Tail(subs), frame_analyses,
                IF matched_fa # 0
                THEN Append(topic_frames,
                            FrameOf(frame_analyses[matched_fa], Len(topic_frames)))
                ELSE topic_frames,
                Append(sub_topics_instances, [image_url |-> img_url]))

RECURSIVE SubTopicsLoop(_, _, _, _)
\* for sub in topic_info.get("sub_topics", []): returns the frames and the
\* sub-topics of the topic
SubTopicsLoop(subs, frame_analyses, topic_frames, sub_topics_instances) ==
    IF subs = <<>>
    THEN [frames |-> topic_frames, sub_topics |-> sub_topics_instances]
    ELSE LET sub == Head(subs)
             search == sub.image_url = None /\ sub.frame_timestamp # NoTimestamp
             matched_fa ==
                 IF search
                 THEN ClosestFrame(frame_analyses, 1, sub.frame_timestamp, 2, 0)
                 ELSE IF sub.image_url # None
                 THEN FirstWithUrl(frame_analyses, sub.image_url)
                 ELSE 0
             img_url ==
                 IF search /\ matched_fa # 0
                 THEN frame_analyses[matched_fa].drive_url
                 ELSE sub.image_url
             exists ==
                 matched_fa # 0 /\
                 \E k \in 1..Len(topic_frames) :
                     topic_frames[k].drive_url = frame_analyses[matched_fa].drive_url
         IN SubTopicsLoop(Tail(subs), frame_analyses,
                IF matched_fa # 0 /\ ~exists
                THEN Append(topic_frames,
                            FrameOf(frame_analyses[matched_fa], Len(topic_frames)))
                ELSE topic_frames,
                Append(sub_topics_instances, [image_url |-> img_url]))

\* one pass of the loop over topic_data
BuildTopic(topic_info, frame_analyses) ==
    LET s0 == timestamp_to_seconds(topic_info.timestamp_range[1])
        e0 == timestamp_to_seconds(topic_info.timestamp_range[2])
        start_seconds == IF s0 < 0 THEN 0 ELSE s0
        end_seconds == IF e0 < start_seconds THEN start_seconds + 600 ELSE e0
        bound == SubTopicsLoop(topic_info.sub_topics, frame_analyses,
                    FramesInRange(frame_analyses, start_seconds, end_seconds, <<>>),
                    <<>>)
    IN [title |-> topic_info.title,
        timestamp_range |-> <<seconds_to_timestamp(start_seconds),
                              seconds_to_timestamp(end_seconds)>>,
        start_seconds |-> start_seconds,
        end_seconds |-> end_seconds,
        frames |-> bound.frames,
        sub_topics |-> bound.sub_topics]

_build_topics(topic_data, frame_analyses) ==
    [i \in 1..Len(topic_data) |-> BuildTopic(topic_data[i], frame_analyses)]

\* ------------------------------------------------- hero frames and uploads
\* f"https://drive.google.com/thumbnail?id={file_id}&sz=w800"
DriveUrl(file_id) == <<"https://drive.google.com/thumbnail?id=", file_id, "&sz=w800">>

\* the id Drive gives to the file uploaded for hero frame number index
FileId(index) == 100 + index

\* upload_single_frame(index, item): outcome is "ok", "missing" (the frame
\* file does not exist) or "raises" (upload_file raised; printed only)
upload_single_frame(index, item, outcome) ==
    [timestamp |-> item.timestamp,
     drive_url |-> IF outcome = "ok" THEN DriveUrl(FileId(index)) ELSE None]

\* frame_analyses: the upload results in index order
FrameAnalyses(visual_subtopics, outcomes) ==
    [i \in 1..Len(visual_subtopics) |->
        upload_single_frame(i - 1, visual_subtopics[i], outcomes[i])]

\* ------------------------------------- GeminiService.map_visuals_to_topics
RECURSIVE SubsFromIndexes(_, _)
\* for sub in mapped.get("sub_topics", []): idx = sub.get("original_index")
SubsFromIndexes(indexes, visual_subtopics) ==
    IF indexes = <<>> THEN <<>>
    ELSE LET idx == Head(indexes)
             rest == SubsFromIndexes(Tail(indexes), visual_subtopics)
         IN IF 0 <= idx /\ idx < Len(visual_subtopics)
            THEN <<[image_url |-> None,
                    frame_timestamp |-> visual_subtopics[idx + 1].timestamp]>> \o rest
            ELSE rest

\* result_topic_map.get(title): the last mapped topic with the title, 0 if none
MappedFor(title, mapped_topics) ==
    LET hits == {k \in 1..Len(mapped_topics) : mapped_topics[k].title = title}
    IN IF hits = {} THEN 0 ELSE -Min({-k : k \in hits})

_fallback_map_topics(main_topics, visual_subtopics) ==
    [i \in 1..Len(main_topics) |->
        LET start_time == timestamp_to_seconds(main_topics[i].timestamp_range[1])
            end_time == timestamp_to_seconds(main_topics[i].timestamp_range[2])
            inside == SelectSeq(visual_subtopics,
                        LAMBDA v : start_time <= v.timestamp /\ v.timestamp <= end_time)
            subs == [k \in 1..Len(inside) |->
                        [image_url |-> None, frame_timestamp |-> inside[k].timestamp]]
        IN [main_topics[i] EXCEPT !.sub_topics = SubSeq(subs, 1, Min2(3, Len(subs)))]]

\* lm: kind "parsed" with the mapped topics (title and original_index list),
\* anything else ends in the fallback
map_visuals_to_topics(main_topics, visual_subtopics, lm) ==
    IF main_topics = <<>> \/ visual_subtopics = <<>> THEN main_topics
    ELSE IF lm.kind = "parsed"
    THEN [i \in 1..Len(main_topics) |->
            LET m == MappedFor(main_topics[i].title, lm.topics)
            IN [main_topics[i] EXCEPT !.sub_topics =
                    IF m = 0 THEN <<>>
                    ELSE SubsFromIndexes(lm.topics[m].sub_topics, visual_subtopics)]]
    ELSE _fallback_map_topics(main_topics, visual_subtopics)

\* process_video from the transcript analysis to the topics of the final update
PersistedTopics(in) ==
    LET transcript_topics ==
            AdFilter(analyze_transcript(in.chunked, in.lm_topics, in.duration))
        synth_topics == AdFilter(synthesize_results(transcript_topics, in.synthesis))
        mapped_topics == map_visuals_to_topics(synth_topics, in.visual_subtopics, in.mapping)
    IN _build_topics(mapped_topics, FrameAnalyses(in.visual_subtopics, in.uploads))

CallReport ==
    /\ ~Called
    /\ result' = <<PersistedTopics(args)>>
    /\ UNCHANGED <<ctl, doc, files, tasks, misc, outs, args>>

MaxTopics == 2
Stamps == {<<0, 0, 0>>, <<0, 0, 30>>, <<0, 1, 0>>, <<0, 2, 0>>}

FlowTopic(title, type, range, key_points) ==
    [title |-> title, type |-> type, timestamp_range |-> range,
     key_points |-> key_points, sub_topics |-> <<>>]

TimedTopics ==
    {FlowTopic("Intro", "content", <<a, b>>, k) : a \in Stamps, b \in Stamps, k \in 0..1}

SynthesisOutcomes(topics) ==
    {[kind |-> "raises", topics |-> <<>>], [kind |-> "unparsable", topics |-> <<>>]}
    \cup {[kind |-> "parsed", topics |-> t] : t \in topics}

InitTopicTimes ==
    /\ NoJobs
    /\ args \in [chunked : BOOLEAN,
                 lm_topics : SeqsUpTo(TimedTopics, MaxTopics),
                 duration : {60},
                 visual_subtopics : {<<>>},
                 uploads : {<<>>},
                 mapping : {[kind |-> "fallback", topics |-> <<>>]},
                 synthesis : SynthesisOutcomes(
                     {<<>>, <<FlowTopic("Demo", "content", <<<<0, 0, 0>>, <<0, 1, 0>>>>, 1)>>})]
    /\ result = <<>>

SpecTopicTimes == InitTopicTimes /\ [][CallReport]_vars

\* overlap of two topics relative to the shorter one exceeds 0.7
TopicsOverlap(a, b) ==
    LET overlap == Max2(0, Min2(a.end_seconds, b.end_seconds)
                            - Max2(a.start_seconds, b.start_seconds))
        shorter == Min2(a.end_seconds - a.start_seconds, b.end_seconds - b.start_seconds)
    IN 10 * overlap > 7 * shorter

\* C15: the persisted topics are sorted by start_seconds, no two of them
\* overlap by more than 0.7 of the shorter one, and each lies within
\* [0, duration + 1].
C15_TopicsWellFormed ==
    Called =>
        LET T == Returned IN
        /\ \A a, b \in 1..Len(T) : a < b => T[a].start_seconds <= T[b].start_seconds
        /\ \A a, b \in 1..Len(T) : a < b => ~TopicsOverlap(T[a], T[b])
        /\ \A a \in 1..Len(T) :
              T[a].start_seconds >= 0 /\ T[a].end_seconds <= args.duration + 1

\* ------------------------------------------------- ad topics in the report
AdTopics ==
    {FlowTopic("Intro", "content", <<<<0, 0, 0>>, <<0, 1, 0>>>>, 1),
     FlowTopic("Demo", "ad", <<<<0, 0, 30>>, <<0, 1, 0>>>>, 1),
     FlowTopic("Sponsor: Acme", "content", <<<<0, 1, 0>>, <<0, 2, 0>>>>, 1),
     FlowTopic("Our SPONSORS", "content", <<<<0, 1, 0>>, <<0, 2, 0>>>>, 0)}

InitTopicAds ==
    /\ NoJobs
    /\ args \in [chunked : BOOLEAN,
                 lm_topics : SeqsUpTo(AdTopics, MaxTopics),
                 duration : {120},
                 visual_subtopics : {<<>>, <<[timestamp |-> 70]>>},
                 uploads : {<<"raises">>},
                 mapping : {[kind |-> "fallback", topics |-> <<>>],
                            [kind |-> "parsed", topics |->
                                <<[title |-> "Sponsor: Acme", sub_topics |-> <<0>>],
                                  [title |-> "Demo", sub_topics |-> <<0>>]>>]},
                 synthesis : SynthesisOutcomes(SeqsUpTo(AdTopics, MaxTopics))]
    /\ result = <<>>

SpecTopicAds == InitTopicAds /\ [][CallReport]_vars

\* C19: no persisted topic has a title containing "sponsor" in any case, and
\* none is a topic the LM declared of type "ad" (here: the one titled Demo).
C19_NoAdTopics ==
    Called =>
        \A a \in 1..Len(Returned) :
            /\ Returned[a].title \notin {"Sponsor: Acme", "Our SPONSORS"}
            /\ Returned[a].title # "Demo"

\* the analyzer returned a sponsor topic, synthesis brought one back together
\* with a content topic, and only the content topic is persisted
C19_Witness ==
    /\ Called
    /\ \E i \in 1..Len(args.lm_topics) : args.lm_topics[i].title = "Sponsor: Acme"
    /\ args.synthesis.kind = "parsed"
    /\ \E i \in 1..Len(args.synthesis.topics) :
          args.synthesis.topics[i].title = "Our SPONSORS"
    /\ Len(Returned) = 1
    /\ Returned[1].title = "Intro"

\* ------------------------------------ GeminiService.synthesize_results
MaxTopicCount == 10

AnalyzerTopics(n) == [i \in 1..n |-> <<"analysis", i>>]

SynthesizerTopics(m) == [i \in 1..m |-> <<"synthesis", i>>]

InitSynth ==
    /\ NoJobs
    /\ args \in [all_topics : {AnalyzerTopics(n) : n \in 0..MaxTopicCount},
                 lm : SynthesisOutcomes({SynthesizerTopics(m) : m \in 0..MaxTopicCount})]
    /\ result = <<>>

CallSynth ==
    /\ ~Called
    /\ result' = <<synthesize_results(args.all_topics, args.lm)>>
    /\ UNCHANGED <<ctl, doc, files, tasks, misc, outs, args>>

SpecSynth == InitSynth /\ [][CallSynth]_vars

MaxClusterFrames == 4

\* A 64-bit hash is the set of the positions of its 1 bits.
\* sum(b1 != b2 for b1, b2 in zip(bin1, bin2))
hamming_distance(h1, h2) == Cardinality((h1 \ h2) \cup (h2 \ h1))

RECURSIVE InsertByBlur(_, _)
InsertByBlur(x, xs) ==
    IF xs = <<>> THEN <<x>>
    ELSE IF x.blur_score > Head(xs).blur_score THEN <<x>> \o xs
    ELSE <<Head(xs)>> \o InsertByBlur(x, Tail(xs))

RECURSIVE SortByBlur(_)
\* cluster.sort(key=lambda x: x['blur_score'], reverse=True), stable
SortByBlur(xs) ==
    IF xs = <<>> THEN <<>>
    ELSE InsertByBlur(xs[Len(xs)], SortByBlur(SubSeq(xs, 1, Len(xs) - 1)))

\* variant: frames at exactly the threshold start a new cluster
ClusterLoop_Strict(frame_hashes, i, clusters, current_cluster, threshold) ==
    LET F(n, cs, cur) ==
            IF hamming_distance(frame_hashes[n].hash, frame_hashes[n - 1].hash) < threshold
            THEN <<cs, Append(cur, frame_hashes[n])>>
            ELSE <<Append(cs, cur), <<frame_hashes[n]>>>>
        RECURSIVE Go(_, _, _)
        Go(n, cs, cur) ==
            IF n > Len(frame_hashes) THEN Append(cs, cur)
            ELSE LET r == F(n, cs, cur) IN Go(n + 1, r[1], r[2])
    IN Go(i, clusters, current_cluster)

RECURSIVE ClusterLoop(_, _, _, _, _)
\* for i in range(1, len(frame_hashes)): compare with the frame before
ClusterLoop(frame_hashes, i, clusters, current_cluster, threshold) ==
    IF i > Len(frame_hashes) THEN Append(clusters, current_cluster)
    ELSE IF hamming_distance(frame_hashes[i].hash, frame_hashes[i - 1].hash) <= threshold
    THEN ClusterLoop(frame_hashes, i + 1, clusters,
                     Append(current_cluster, frame_hashes[i]), threshold)
    ELSE ClusterLoop(frame_hashes, i + 1, Append(clusters, current_cluster),
                     <<frame_hashes[i]>>, threshold)

\* the dict made of one cluster; members is the cluster it was made from,
\* in time order
ProcessCluster(cluster) ==
    LET scored == IF Len(cluster) > 1 THEN cluster
                  ELSE <<[cluster[1] EXCEPT !.blur_score = 100]>>
        sorted == SortByBlur(scored)
    IN [start_time |-> Min({cluster[k].timestamp : k \in 1..Len(cluster)}),
        end_time |-> -Min({-cluster[k].timestamp : k \in 1..Len(cluster)}),
        frame_count |-> Len(cluster),
        candidates |-> SubSeq(sorted, 1, Min2(5, Len(sorted))),
        members |-> cluster]

\* frames whose hash cannot be computed (calculate_phash returns None) are
\* left out before clustering
cluster_frames(frames, threshold) ==
    LET frame_hashes == SelectSeq(frames, LAMBDA f : f.readable)
    IN IF frame_hashes = <<>> THEN <<>>
       ELSE LET clusters == ClusterLoop(frame_hashes, 2, <<>>, <<frame_hashes[1]>>,
                                        threshold)
            IN [c \in 1..Len(clusters) |-> ProcessCluster(clusters[c])]

\* hashes with the first k bits set: two of them differ in |k1 - k2| bits
HashLevels == {0, 2, 12, 13, 40}

FrameKinds ==
    {[hash |-> 1..k, readable |-> TRUE, blur_score |-> b] : k \in HashLevels, b \in 1..2}
    \cup {[hash |-> {}, readable |-> FALSE, blur_score |-> 0]}

\* (path, timestamp) tuples in time order: the frame at position i has
\* timestamp i
TimeOrdered(kinds) ==
    [i \in 1..Len(kinds) |->
        [timestamp |-> i, hash |-> kinds[i].hash, readable |-> kinds[i].readable,
         blur_score |-> kinds[i].blur_score]]

\* ten frames whose hashes differ pairwise in 2 bits, then one that differs
\* from the tenth in 40 bits
TenAndOne ==
    [i \in 1..11 |->
        [hash |-> IF i <= 10 THEN {i} ELSE {10} \cup 21..60,
         readable |-> TRUE, blur_score |-> 1]]

InitCluster ==
    /\ NoJobs
    /\ args \in {TimeOrdered(k) : k \in SeqsUpTo(FrameKinds, MaxClusterFrames) \cup {TenAndOne}}
    /\ result = <<>>

CallCluster ==
    /\ ~Called
    /\ result' = <<cluster_frames(args, 12)>>
    /\ UNCHANGED <<ctl, doc, files, tasks, misc, outs, args>>

SpecCluster == InitCluster /\ [][CallCluster]_vars

\* C16: with threshold 12, frames that follow each other in time within a
\* cluster differ in at most 12 bits, the first frame of a cluster differs in
\* more than 12 bits from the last frame of the cluster before it, and ten
\* frames at mutual distance 2 followed by one at distance 40 give clusters
\* of sizes 10 and 1.
C16_ClusterDistances ==
    Called =>
        LET C == Returned IN
        /\ \A c \in 1..Len(C) : \A k \in 1..(Len(C[c].members) - 1) :
              hamming_distance(C[c].members[k].hash, C[c].members[k + 1].hash) <= 12
        /\ \A c \in 2..Len(C) :
              hamming_distance(C[c].members[1].hash,
                               C[c - 1].members[Len(C[c - 1].members)].hash) > 12
        /\ \A c \in 1..Len(C) : \A k \in 1..(Len(C[c].members) - 1) :
              C[c].members[k].timestamp < C[c].members[k + 1].timestamp
        /\ Len(args) = 11 => Len(C) = 2 /\ C[1].frame_count = 10 /\ C[2].frame_count = 1

\* the example of ten similar frames and one different frame, clustered
C16_Witness ==
    /\ Called
    /\ Len(args) = 11
    /\ Len(Returned) = 2
    /\ Returned[1].frame_count = 10
    /\ Returned[2].frame_count = 1

\* ---------------------------------------- sub-topics and their hero frames
MaxVisuals == 3

VisualSubtopics == {[timestamp |-> t] : t \in {10, 11, 70}}

MappedTopics ==
    {[title |-> t, sub_topics |-> x] :
        t \in {"Intro", "Demo"}, x \in {<<0>>, <<0, 1>>, <<1, 0, 0>>, <<5>>}}

InitBuild ==
    /\ NoJobs
    /\ \E n \in 0..MaxVisuals :
        args \in [chunked : {FALSE},
                  lm_topics : {<<FlowTopic("Intro", "content", <<<<0, 0, 0>>, <<0, 1, 0>>>>, 1)>>,
                               <<FlowTopic("Intro", "content", <<<<0, 0, 0>>, <<0, 1, 0>>>>, 1),
                                 FlowTopic("Demo", "content", <<<<0, 1, 0>>, <<0, 2, 0>>>>, 1)>>},
                  duration : {120},
                  synthesis : {[kind |-> "raises", topics |-> <<>>]},
                  visual_subtopics : [1..n -> VisualSubtopics],
                  uploads : [1..n -> {"ok", "raises"}],
                  mapping : {[kind |-> "fallback", topics |-> <<>>]}
                            \cup {[kind |-> "parsed", topics |-> m] :
                                    m \in SeqsUpTo(MappedTopics, 1)}]
    /\ result = <<>>

SpecBuild == InitBuild /\ [][CallReport]_vars

ValidateIndex_ClampToLast(answer, count) ==
    IF answer.type # "int" \/ answer.value < 0 THEN 0
    ELSE IF answer.value >= count THEN count - 1
    ELSE answer.value

\* idx = parsed.get("hero_frame_index", 0); if not isinstance(idx, int) or
\* idx < 0 or idx >= len(valid_candidates): idx = 0
ValidateIndex(answer, count) ==
    IF answer.type # "int" \/ answer.value < 0 \/ answer.value >= count THEN 0
    ELSE answer.value

RECURSIVE AnalyzeClustersLoop(_, _, _, _)
\* analyze_frame_clusters: lm[i] is the hero_frame_index the LM gave for
\* cluster i, or -1 when the call failed or its answer did not parse (the
\* cluster is skipped)
AnalyzeClustersLoop(clusters, lm, i, results) ==
    IF i > Len(clusters) THEN results
    ELSE LET valid_candidates == clusters[i].candidates
             idx == ValidateIndex([type |-> "int", value |-> lm[i]], Len(valid_candidates))
         IN IF lm[i] = -1
            THEN AnalyzeClustersLoop(clusters, lm, i + 1, results)
            ELSE AnalyzeClustersLoop(clusters, lm, i + 1,
                    Append(results, [timestamp |-> valid_candidates[idx + 1].timestamp,
                                     cluster_idx |-> i - 1]))

analyze_frame_clusters(clusters, lm) == AnalyzeClustersLoop(clusters, lm, 1, <<>>)

\* process_video from the clustering to the "frames" of the final update
PersistedFrames(in) ==
    LET clusters == cluster_frames(in.frames, 12)
        visual_subtopics == analyze_frame_clusters(clusters, in.hero)
    IN [clusters |-> clusters,
        frames |-> FrameAnalyses(visual_subtopics, in.uploads)]

MaxHeroInputs == 3

HeroFrameKinds ==
    {[hash |-> 1..k, readable |-> TRUE, blur_score |-> b] : k \in {0, 40}, b \in 1..2}

InitHero ==
    /\ NoJobs
    /\ args \in [frames : {TimeOrdered(k) : k \in SeqsUpTo(HeroFrameKinds, MaxHeroInputs)},
                 hero : [1..MaxHeroInputs -> {-1, 0, 1}],
                 uploads : [1..MaxHeroInputs -> {"ok", "missing", "raises"}]]
    /\ result = <<>>

CallHero ==
    /\ ~Called
    /\ result' = <<PersistedFrames(args)>>
    /\ UNCHANGED <<ctl, doc, files, tasks, misc, outs, args>>

SpecHero == InitHero /\ [][CallHero]_vars

\* C17: every frame of the frames list has the thumbnail URL made of the id
\* its upload returned, and a timestamp within [start_time, end_time] of some
\* cluster.
C17_FramesHaveUrl ==
    Called =>
        \A f \in 1..Len(Returned.frames) :
            /\ Returned.frames[f].drive_url # None
            /\ Returned.frames[f].drive_url = DriveUrl(FileId(f - 1))
            /\ \E c \in 1..Len(Returned.clusters) :
                  /\ Returned.clusters[c].start_time <= Returned.frames[f].timestamp
                  /\ Returned.frames[f].timestamp <= Returned.clusters[c].end_time

\* ------------------------------------------------- routes: status, results
\* the job document as find_one returns it
JobDoc(j) ==
    [status |-> status[j], progress |-> progress[j],
     error_message |-> errorMessage[j],
     current_action |-> currentAction[j], processing_logs |-> logs[j]]

\* GET /status/{job_id}: what a reader of the job observes
get_job_status(job) ==
    [status |-> job.status, progress |-> job.progress,
     current_action |-> job.current_action,
     processing_logs |-> job.processing_logs]

\* variant: the results route has no branch for a failed job
get_job_results_NoFailedBranch(job) ==
    IF job.status \notin {"completed", "failed"}
    THEN [code |-> 400, detail |-> <<"Job is still processing (status: ", job.status>>]
    ELSE [code |-> 200, detail |-> <<"result", job.status>>]

\* GET /results/{job_id} for a job that exists
get_job_results(job) ==
    IF job.status \notin {"completed", "failed"}
    THEN [code |-> 400, detail |-> <<"Job is still processing (status: ", job.status>>]
    ELSE IF job.status = "failed"
    THEN [code |-> 500, detail |-> <<"Job failed: ", job.error_message>>]
    ELSE [code |-> 200, detail |-> <<"result", job.status>>]

NonTerminal == {"pending", "downloading", "extracting", "transcribing",
                "analyzing", "synthesizing"}

C22_UpdateAtomicForReaders ==
    \A j \in Jobs :
        LET seen == get_job_status(JobDoc(j))
            u == pending[j]
        IN (/\ u.msg # 0
            /\ seen.current_action = u.msg
            /\ seen.processing_logs # <<>>
            /\ seen.processing_logs[Len(seen.processing_logs)] = u.msg)
           => /\ u.status # Keep => seen.status = u.status
              /\ u.progress >= 0 => seen.progress = u.progress

\* --------------------------------------- _update_job applied to a document
\* first update_one: $push processing_logs, $set current_action
PushMessage(job, msg) ==
    [job EXCEPT !.processing_logs = Append(@, msg), !.current_action = msg]

\* second update_one: $set of the fields left in `updates`
SetFields(job, updates) ==
    [job EXCEPT !.status = IF updates.status = Keep THEN @ ELSE updates.status,
                !.progress = IF updates.progress < 0 THEN @ ELSE updates.progress,
                !.error_message = IF updates.error = Keep THEN @ ELSE updates.error]

\* the document after one _update_job(job_id, updates); updated_at left out
_update_job(job, updates) ==
    SetFields(IF updates.msg # 0 THEN PushMessage(job, updates.msg) ELSE job, updates)

StoredJobs ==
    {[status |-> s, progress |-> p, error_message |-> NoError,
      current_action |-> IF l = <<>> THEN 0 ELSE l[Len(l)], processing_logs |-> l] :
        s \in NonTerminal \cup Terminal, p \in {0, 50}, l \in {<<>>, <<54>>}}

Patches ==
    [status : {Keep, "downloading", "failed"}, progress : {-1, 5},
     error : {Keep, ErrMedia}, msg : {0, 54, 86}]

InitUpdate ==
    /\ NoJobs
    /\ args \in [job : StoredJobs, updates : Patches]
    /\ result = <<>>

\* the same call made once, and made a second time on the outcome of the first
CallUpdateTwice ==
    /\ ~Called
    /\ result' = <<[once |-> _update_job(args.job, args.updates),
                    twice |-> _update_job(_update_job(args.job, args.updates),
                                          args.updates)]>>
    /\ UNCHANGED <<ctl, doc, files, tasks, misc, outs, args>>

SpecUpdate == InitUpdate /\ [][CallUpdateTwice]_vars

\* C23: the same _update_job call applied twice leaves the document as
\* applying it once does (updated_at aside).
C23_UpdateIdempotent ==
    Called => Returned.twice = Returned.once

\* C24: a run that found no audio cue and produced no visual ROI, and whose
\* store reads, video acquisition and media toolkit steps succeeded, ends
\* completed.
C24_NoWindowsStillCompletes ==
    \A j \in Jobs :
        (/\ Ended(j)
         /\ ~cues[j] /\ rois[j] = 0
         /\ exc[j] \notin {ErrRead, ErrDownload, ErrMedia})
        => status[j] = "completed"

\* --------------------------------- _transcribe_audio: chunks to transcript
\* start offsets of consecutive chunks differ by chunk_duration - overlap
\* (scaled: 8 for 270 s)
ChunkStride == 8

\* gemini_service.transcribe_audio(chunk_path, start_time).  lm.kind says how
\* the structured attempts ended: "segments" (parsed, with the segments of
\* lm.segments, times relative to the clip), "no_segments" (answer unparsable
\* or without "segments"), "raises" (every retry raised; _simple_transcribe
\* then returns one coarse segment, or [] when its own LM call raises)
transcribe_audio(lm, start_time) ==
    CASE lm.kind = "segments" ->
            [k \in 1..Len(lm.segments) |->
                [start_time |-> start_time + lm.segments[k].start_time,
                 end_time |-> start_time + lm.segments[k].end_time,
                 text |-> lm.segments[k].text]]
      [] lm.kind = "no_segments" -> <<>>
      [] lm.kind = "raises" ->
            IF lm.simple = "text"
            THEN <<[start_time |-> start_time, end_time |-> start_time + 300,
                    text |-> lm.text]>>
            ELSE <<>>

RECURSIVE Flatten(_)
\* for segments in results: all_segments.extend(segments)
Flatten(results) ==
    IF results = <<>> THEN <<>> ELSE Head(results) \o Flatten(Tail(results))

\* _transcribe_audio for chunks whose LM outcomes are lms
TranscribeChunks(lms) ==
    LET results == [i \in 1..Len(lms) |->
                        transcribe_audio(lms[i], (i - 1) * ChunkStride)]
    IN [results |-> results,
        deduplicated |-> _deduplicate_segments(Flatten(results))]

\* text lengths: 11 is len("Hello world")
ClipSegments ==
    {[start_time |-> 0, end_time |-> 10, text |-> 11],
     [start_time |-> 0, end_time |-> 4, text |-> 3],
     [start_time |-> 4, end_time |-> 10, text |-> 5]}

ChunkOutcomes ==
    {[kind |-> "segments", segments |-> s, simple |-> "none", text |-> 0] :
        s \in SeqsUpTo(ClipSegments, 2)}
    \cup {[kind |-> "no_segments", segments |-> <<>>, simple |-> "none", text |-> 0]}
    \cup {[kind |-> "raises", segments |-> <<>>, simple |-> x, text |-> 20] :
            x \in {"text", "raises"}}

InitTranscribe ==
    /\ NoJobs
    /\ args \in SeqsUpTo(ChunkOutcomes, MaxChunks)
    /\ result = <<>>

CallTranscribe ==
    /\ ~Called
    /\ result' = <<TranscribeChunks(args)>>
    /\ UNCHANGED <<ctl, doc, files, tasks, misc, outs, args>>

SpecTranscribe == InitTranscribe /\ [][CallTranscribe]_vars

HelloWorld == [start_time |-> 0, end_time |-> 10, text |-> 11]

HelloChunk == [kind |-> "segments", segments |-> <<HelloWorld>>,
               simple |-> "none", text |-> 0]

\* C25: two chunks starting at 0 and 8 that each emit {0, 10, "Hello world"}
\* leave the single segment {0, 10, "Hello world"} after dedup.
C25_SharedSegmentOnce ==
    (Called /\ args = <<HelloChunk, HelloChunk>>) =>
        Returned.deduplicated = <<HelloWorld>>

\* C30: every chunk has at least one segment in the flattened transcript; a
\* chunk whose LM attempts all failed has one segment starting at its offset.
C30_NoEmptyChunk ==
    Called =>
        \A i \in 1..Len(args) :
            /\ Returned.results[i] # <<>>
            /\ args[i].kind = "raises" =>
                /\ Len(Returned.results[i]) = 1
                /\ Returned.results[i][1].start_time = (i - 1) * ChunkStride

\* C28: when the incoming segment and the tail overlap by more than 70% of
\* either one's length, the one with the longer text is kept, the longer span
\* deciding between texts of equal length.
C28_LongerTextWins ==
    (Called /\ Len(args) = 2) =>
        LET sorted_segments == SortByStartTime(args)
            tail == sorted_segments[1]
            s == sorted_segments[2]
            overlap == OverlapDuration(s, tail)
        IN (HighOverlap(overlap, Duration(tail)) \/ HighOverlap(overlap, Duration(s)))
           => Returned = <<IF s.text > tail.text THEN s
                           ELSE IF s.text < tail.text THEN tail
                           ELSE IF Duration(s) > Duration(tail) THEN s ELSE tail>>

\* ------------------------------- merge_time_windows against the reference
\* the window of one event: [max(0, t - buffer), min(D, t + buffer)]
EventWindow(t, total_duration, buffer_seconds) ==
    <<Max2(0, t - buffer_seconds), Min2(total_duration, t + buffer_seconds)>>

\* the arrangements of ws that are sorted by start
SortedArrangements(ws) ==
    {p \in [1..Len(ws) -> 1..Len(ws)] :
        /\ \A a, b \in 1..Len(ws) : a # b => p[a] # p[b]
        /\ \A a, b \in 1..Len(ws) : a < b => ws[p[a]][1] <= ws[p[b]][1]}

RECURSIVE Sweep(_, _, _)
\* the sweep over the first k windows of ws: the next window is merged into
\* the tail iff next.start <= tail.end + min_gap, otherwise appended
Sweep(ws, k, min_gap) ==
    IF k = 1 THEN <<ws[1]>>
    ELSE LET m == Sweep(ws, k - 1, min_gap)
             tail == m[Len(m)]
         IN IF ws[k][1] <= tail[2] + min_gap
            THEN SubSeq(m, 1, Len(m) - 1)
                    \o <<<<tail[1], IF ws[k][2] > tail[2] THEN ws[k][2] ELSE tail[2]>>>>
            ELSE m \o <<ws[k]>>

RECURSIVE GateLoop(_, _, _)
\* for result in sorted(gate_results): every evaluated frame is appended to
\* visual_rois; the frames with is_useful are appended to useful_frames
GateLoop(gate_results, visual_rois, useful_frames) ==
    IF gate_results = <<>>
    THEN [visual_rois |-> visual_rois, useful_frames |-> useful_frames]
    ELSE LET r == Head(gate_results)
         IN GateLoop(Tail(gate_results),
                     Append(visual_rois, r.timestamp),
                     IF r.is_useful THEN Append(useful_frames, r.timestamp)
                                    ELSE useful_frames)

\* process_video from the gate results to processing_windows
\* (buffer_seconds = 5.0, min_gap = 5.0)
ProcessingWindows(in) ==
    LET gate == GateLoop(in.gate_results, <<>>, <<>>)
    IN [useful_frames |-> gate.useful_frames,
        processing_windows |->
            merge_time_windows(in.audio_cues \o gate.visual_rois, in.duration, 5, 5)]

\* results of evaluate_frame_content: a category and is_useful; the error
\* result has is_useful False
GateResults ==
    {[timestamp |-> t, category |-> c, is_useful |-> c = "slide_presentation"] :
        t \in {0, 30}, c \in {"slide_presentation", "talking_head", "error"}}

InitGate ==
    /\ NoJobs
    /\ args \in [gate_results : SeqsUpTo(GateResults, MaxFrames),
                 audio_cues : {<<>>, <<10>>, <<50>>},
                 duration : {60, 90}]
    /\ result = <<>>

CallGate ==
    /\ ~Called
    /\ result' = <<ProcessingWindows(args)>>
    /\ UNCHANGED <<ctl, doc, files, tasks, misc, outs, args>>

SpecGate == InitGate /\ [][CallGate]_vars

\* C27: the processing windows are those of the audio-cue timestamps and the
\* timestamps of the frames the gatekeeper approved, and of nothing else.
C27_OnlyApprovedFramesFeedFusion ==
    Called =>
        Returned.processing_windows =
            merge_time_windows(args.audio_cues \o Returned.useful_frames,
                               args.duration, 5, 5)

\* ------------------------------------------ map_visuals_to_topics alone
\* what the mapping LM may name: a title and the original_index values of the
\* sub-topics it put under it (the prompt asks for at most 3; nothing checks)
MapAnswers ==
    {[title |-> t, sub_topics |-> x] :
        t \in {"Intro", "Demo", "Other"},
        x \in {<<>>, <<0>>, <<1, 0>>, <<0, 1, 2>>, <<0, 1, 2, 0>>}}

MainTopicLists ==
    {<<FlowTopic("Intro", "content", <<<<0, 0, 0>>, <<0, 1, 0>>>>, 1)>>,
     <<FlowTopic("Intro", "content", <<<<0, 0, 0>>, <<0, 1, 0>>>>, 1),
       FlowTopic("Demo", "content", <<<<0, 1, 0>>, <<0, 2, 0>>>>, 1)>>}

InitMap ==
    /\ NoJobs
    /\ \E n \in 0..MaxVisuals :
        args \in [main_topics : MainTopicLists,
                  visual_subtopics : [1..n -> VisualSubtopics],
                  lm : {[kind |-> "raises", topics |-> <<>>]}
                       \cup {[kind |-> "parsed", topics |-> m] :
                                m \in SeqsUpTo(MapAnswers, 1)}]
    /\ result = <<>>

CallMap ==
    /\ ~Called
    /\ result' = <<map_visuals_to_topics(args.main_topics, args.visual_subtopics,
                                         args.lm)>>
    /\ UNCHANGED <<ctl, doc, files, tasks, misc, outs, args>>

SpecMap == InitMap /\ [][CallMap]_vars

\* C29: the topics returned are the main topics given (same count, order and
\* titles) and each carries at most 3 sub-topics.
C29_SameTopicsAtMostThreeSubs ==
    Called =>
        /\ Len(Returned) = Len(args.main_topics)
        /\ \A i \in 1..Len(Returned) :
            /\ Returned[i].title = args.main_topics[i].title
            /\ Len(Returned[i].sub_topics) <= 3

\* C31: hero selection keeps one result per cluster, in cluster order: the
\* number of hero frames equals the number of clusters and the k-th hero
\* frame belongs to the k-th cluster.
C31_OneHeroPerCluster ==
    Called =>
        /\ Len(Returned.frames) = Len(Returned.clusters)
        /\ \A k \in 1..Len(Returned.frames) :
              /\ k <= Len(Returned.clusters)
              /\ Returned.clusters[k].start_time <= Returned.frames[k].timestamp
              /\ Returned.frames[k].timestamp <= Returned.clusters[k].end_time

\* --------------------------------------- GoogleDriveService.upload_file
UPLOAD_MAX_RETRIES == 5
UPLOAD_BASE_DELAY == 1

\* variant: the permission step lets its exception through
_set_file_permission_Raises(perm) == perm = "raises"

\* _set_file_permission: TRUE iff the call raises.  Its body is one try
\* block with `except Exception`, so it never does
_set_file_permission(perm) == FALSE

RECURSIVE UploadLoop(_, _, _, _)
\* for attempt in range(max_retries): st counts the create calls made, the
\* blobs created, the re-authentications, and lists the backoff delays
\* (without the random.uniform(0, 1) added to each)
UploadLoop(outcomes, perm, attempt, st) ==
    LET created == outcomes[attempt + 1] = "ok"
        made == [st EXCEPT !.attempts = @ + 1,
                           !.blobs = IF created THEN @ + 1 ELSE @]
    IN IF created /\ ~_set_file_permission(perm)
       THEN [made EXCEPT !.kind = "returns"]
       ELSE IF attempt = UPLOAD_MAX_RETRIES - 1
       THEN [made EXCEPT !.kind = "raises"]
       ELSE UploadLoop(outcomes, perm, attempt + 1,
                [made EXCEPT !.delays = Append(@, UPLOAD_BASE_DELAY * 2 ^ attempt),
                             !.reauths = IF outcomes[attempt + 1] = "unauthorized"
                                         THEN @ + 1 ELSE @])

\* outcomes[k]: how the k-th files().create().execute() would end;
\* perm: how permissions().create().execute() ends
upload_file(outcomes, perm) ==
    UploadLoop(outcomes, perm, 0,
               [kind |-> "running", attempts |-> 0, blobs |-> 0, reauths |-> 0,
                delays |-> <<>>])

InitUpload ==
    /\ NoJobs
    /\ args \in [outcomes : [1..UPLOAD_MAX_RETRIES -> {"ok", "error", "unauthorized"}],
                 perm : {"ok", "raises"}]
    /\ result = <<>>

CallUpload ==
    /\ ~Called
    /\ result' = <<upload_file(args.outcomes, args.perm)>>
    /\ UNCHANGED <<ctl, doc, files, tasks, misc, outs, args>>

SpecUpload == InitUpload /\ [][CallUpload]_vars

\* the attempts that would succeed
Successes(outcomes) == {k \in 1..UPLOAD_MAX_RETRIES : outcomes[k] = "ok"}

\* C32: upload_file makes at most 5 attempts, stops at the first successful
\* one, raises only after five failures, and a failing permission step
\* neither repeats the upload nor fails the call.
C32_UploadAttempts ==
    Called =>
        LET ok == Successes(args.outcomes) IN
        /\ Returned.attempts <= 5
        /\ Returned.kind \in {"returns", "raises"}
        /\ ok # {} => /\ Returned.kind = "returns"
                      /\ Returned.attempts = Min(ok)
                      /\ Returned.blobs = 1
        /\ ok = {} => /\ Returned.kind = "raises"
                      /\ Returned.attempts = 5
                      /\ Returned.blobs = 0
        /\ Returned = upload_file(args.outcomes, "ok")

\* two failed attempts, then a successful one whose permission step fails
C32_Witness ==
    /\ Called
    /\ args.perm = "raises"
    /\ Returned.kind = "returns"
    /\ Returned.attempts = 3
    /\ Returned.delays = <<1, 2>>

\* ------------------------------------------------- retry_with_backoff
MaxRetries == 3

\* variant: after the last failure the loop ends and the function returns
RetryLoop_NoRaise(outcomes, max_retries, initial_delay, attempt, st) ==
    LET RECURSIVE Go(_, _)
        Go(a, s) ==
            LET called == [s EXCEPT !.calls = @ + 1]
            IN IF outcomes[a + 1] # "raises"
               THEN [called EXCEPT !.kind = "returns", !.value = a + 1]
               ELSE IF a = max_retries - 1
               THEN [called EXCEPT !.kind = "returns", !.value = 0]
               ELSE Go(a + 1, [called EXCEPT !.delays =
                                    Append(@, initial_delay * 2 ^ a)])
    IN Go(attempt, st)

RECURSIVE RetryLoop(_, _, _, _, _)
\* for attempt in range(max_retries): try: return func(); except: raise on
\* the last attempt, otherwise sleep initial_delay * 2 ** attempt.
\* value is the number of the call whose result was returned, or whose
\* exception was raised
RetryLoop(outcomes, max_retries, initial_delay, attempt, st) ==
    LET called == [st EXCEPT !.calls = @ + 1]
    IN IF outcomes[attempt + 1] # "raises"
       THEN [called EXCEPT !.kind = "returns", !.value = attempt + 1]
       ELSE IF attempt = max_retries - 1
       THEN [called EXCEPT !.kind = "raises", !.value = attempt + 1]
       ELSE RetryLoop(outcomes, max_retries, initial_delay, attempt + 1,
                      [called EXCEPT !.delays = Append(@, initial_delay * 2 ^ attempt)])

\* outcomes[k]: the k-th call of func returns a result ("result"), returns
\* None ("none") or raises ("raises")
retry_with_backoff(outcomes, max_retries, initial_delay) ==
    LET st == [kind |-> "returns", value |-> 0, calls |-> 0, delays |-> <<>>]
    IN IF max_retries <= 0 THEN st
       ELSE RetryLoop(outcomes, max_retries, initial_delay, 0, st)

InitRetry ==
    /\ NoJobs
    /\ args \in [outcomes : [1..MaxRetries -> {"result", "none", "raises"}],
                 max_retries : 1..MaxRetries,
                 initial_delay : {1, 2}]
    /\ result = <<>>

CallRetry ==
    /\ ~Called
    /\ result' = <<retry_with_backoff(args.outcomes, args.max_retries,
                                      args.initial_delay)>>
    /\ UNCHANGED <<ctl, doc, files, tasks, misc, outs, args>>

SpecRetry == InitRetry /\ [][CallRetry]_vars

\* C33: retry_with_backoff calls func at most max_retries times, returns the
\* result of the first call that does not raise, sleeps initial_delay * 2^k
\* before call k + 2, and raises the exception of the last call when all
\* max_retries calls raise.
C33_RetryContract ==
    Called =>
        LET n == args.max_retries
            good == {k \in 1..n : args.outcomes[k] # "raises"}
        IN /\ Returned.calls <= n
           /\ good # {} => /\ Returned.kind = "returns"
                           /\ Returned.value = Min(good)
                           /\ Returned.calls = Min(good)
           /\ good = {} => /\ Returned.kind = "raises"
                           /\ Returned.value = n
                           /\ Returned.calls = n
           /\ Len(Returned.delays) = Returned.calls - 1
           /\ \A k \in 1..Len(Returned.delays) :
                  Returned.delays[k] = args.initial_delay * 2 ^ (k - 1)

\* three calls allowed, all raise: two sleeps of 2 and 4, then the exception
C33_Witness ==
    /\ Called
    /\ args.max_retries = 3 /\ args.initial_delay = 2
    /\ Returned.kind = "raises"
    /\ Returned.calls = 3
    /\ Returned.delays = <<2, 4>>

\* ------------------------------------- the frame list given to clustering
MaxDense == 3
MaxHalfSeconds == 5

\* int(ts) of a timestamp kept in half seconds
IntSecond(ts) == ts \div 2

RECURSIVE PutAll(_, _)
\* for path, ts in frames: combined_frames_map[int(ts)] = (path, ts)
PutAll(map, frames) ==
    IF frames = <<>> THEN map
    ELSE LET f == Head(frames)
             key == IntSecond(f.ts)
         IN PutAll([k \in DOMAIN map \cup {key} |-> IF k = key THEN f ELSE map[k]],
                   Tail(frames))

RECURSIVE SortedByTs(_)
\* sorted(values, key=lambda x: x[1]) for values of distinct timestamps
SortedByTs(S) ==
    IF S = {} THEN <<>>
    ELSE LET m == CHOOSE x \in S : \A y \in S : x.ts <= y.ts
         IN <<m>> \o SortedByTs(S \ {m})

\* variant: the dense frames are entered first, the coarse frames overwrite
CombineFrames_CoarseWins(useful_frames, dense_frames) ==
    LET map == PutAll(PutAll(<<>>, dense_frames), useful_frames)
    IN SortedByTs({map[k] : k \in DOMAIN map})

\* coarse frames first, then the dense frames; sorted by timestamp
CombineFrames(useful_frames, dense_frames) ==
    LET map == PutAll(PutAll(<<>>, useful_frames), dense_frames)
    IN SortedByTs({map[k] : k \in DOMAIN map})

\* coarse frames lie on whole seconds; both lists come sorted by timestamp
InitCombine ==
    /\ NoJobs
    /\ args \in [useful_frames :
                    {s \in SeqsUpTo({[kind |-> "coarse", ts |-> 2 * k] :
                                        k \in 0..(MaxHalfSeconds \div 2)}, MaxFrames) :
                        \A a, b \in 1..Len(s) : a < b => s[a].ts < s[b].ts},
                 dense_frames :
                    {s \in SeqsUpTo({[kind |-> "dense", ts |-> t] :
                                        t \in 0..MaxHalfSeconds}, MaxDense) :
                        \A a, b \in 1..Len(s) : a < b => s[a].ts < s[b].ts}]
    /\ result = <<>>

CallCombine ==
    /\ ~Called
    /\ result' = <<CombineFrames(args.useful_frames, args.dense_frames)>>
    /\ UNCHANGED <<ctl, doc, files, tasks, misc, outs, args>>

SpecCombine == InitCombine /\ [][CallCombine]_vars

Range(s) == {s[i] : i \in 1..Len(s)}

MaxMembers == 6

\* the body of the loop for one cluster: opens[k] says whether Image.open
\* works on candidate k; answer is the hero_frame_index of the parsed answer
\* (type "missing": no such key, "str": not an integer) or type "fails" when
\* the call raised or nothing parsed.  None when the cluster is skipped
SelectHero(cluster, opens, answer) ==
    LET candidates == SubSeq(cluster.candidates, 1, Min2(5, Len(cluster.candidates)))
        kept == {k \in 1..Len(candidates) : opens[k]}
        valid_candidates ==
            [n \in 1..Cardinality(kept) |->
                candidates[CHOOSE k \in kept : Cardinality({x \in kept : x < k}) = n - 1]]
    IN IF valid_candidates = <<>> \/ answer.type = "fails" THEN None
       ELSE LET idx == ValidateIndex(answer, Len(valid_candidates))
                hero_frame == valid_candidates[idx + 1]
            IN <<[timestamp |-> hero_frame.timestamp,
                  hero_frame_path |-> hero_frame.timestamp,
                  blur_score |-> hero_frame.blur_score,
                  frame_count |-> cluster.frame_count]>>

HeroAnswers ==
    {[type |-> t, value |-> 0] : t \in {"missing", "str", "fails"}}
    \cup {[type |-> "int", value |-> v] : v \in -1..MaxMembers}

\* a cluster as cluster_frames makes it from 1..MaxMembers similar frames
\* (the path of a frame is identified by its timestamp)
InitSelect ==
    /\ NoJobs
    /\ \E n \in 1..MaxMembers :
        args \in [cluster : {ProcessCluster(TimeOrdered(
                                [i \in 1..n |-> [hash |-> {}, readable |-> TRUE,
                                                 blur_score |-> b[i]]])) :
                                b \in [1..n -> 1..2]},
                  opens : [1..5 -> BOOLEAN],
                  answer : HeroAnswers]
    /\ result = <<>>

CallSelect ==
    /\ ~Called
    /\ result' = <<SelectHero(args.cluster, args.opens, args.answer)>>
    /\ UNCHANGED <<ctl, doc, files, tasks, misc, outs, args>>

SpecSelect == InitSelect /\ [][CallSelect]_vars

\* the candidates of the cluster that can be opened, in candidate order
Openable(cluster, opens) ==
    SelectSeq([k \in 1..Len(cluster.candidates) |->
                  [c |-> cluster.candidates[k], k |-> k]],
              LAMBDA x : x.k <= 5 /\ opens[x.k])

BindSubTopics ==
    {[image_url |-> None, frame_timestamp |-> t] : t \in {10, 12, 80}}

InitBind ==
    /\ NoJobs
    /\ \E n \in 0..MaxVisuals :
        args \in [topic_info :
                    {[FlowTopic("Intro", "content", <<<<0, 0, 0>>, <<0, 1, 0>>>>, 1)
                        EXCEPT !.sub_topics = s] : s \in SeqsUpTo(BindSubTopics, 2)},
                  visual_subtopics : [1..n -> {[timestamp |-> t] : t \in {10, 11, 13, 70}}],
                  uploads : [1..n -> {"ok", "raises"}]]
    /\ result = <<>>

CallBind ==
    /\ ~Called
    /\ result' = <<BuildTopic(args.topic_info,
                              FrameAnalyses(args.visual_subtopics, args.uploads))>>
    /\ UNCHANGED <<ctl, doc, files, tasks, misc, outs, args>>

SpecBind == InitBind /\ [][CallBind]_vars

\* C36: a sub-topic with a frame timestamp and no image_url gets the blob URL
\* of an uploaded hero frame nearest to its timestamp when that one is less
\* than 2 s away; when no uploaded hero frame is within 2 s its image_url
\* stays unset and the topic gets no frame for it.
C36_BoundToNearestUploaded ==
    Called =>
        LET fas == FrameAnalyses(args.visual_subtopics, args.uploads)
            uploaded == {i \in 1..Len(fas) : fas[i].drive_url # None}
            subs == args.topic_info.sub_topics
            Dist(i, k) == Abs(fas[i].timestamp - subs[k].frame_timestamp)
            Near(k) == {i \in uploaded : Dist(i, k) < 2}
        IN /\ \A k \in 1..Len(subs) :
                LET url == Returned.sub_topics[k].image_url IN
                /\ Near(k) = {} => url = None
                /\ Near(k) # {} =>
                      \E i \in Near(k) : /\ url = fas[i].drive_url
                                         /\ \A o \in uploaded : Dist(i, k) <= Dist(o, k)
           /\ (\A k \in 1..Len(subs) : Near(k) = {}) =>
                 Returned.frames = FramesInRange(fas, 0, 60, <<>>)

\* ------------------------------------------------ FFmpegUtils.split_audio
MaxDuration == 6
MaxChunkLen == 3
MaxSplitChunks == 7

\* the local state of split_audio(audio_path, chunk_duration, overlap):
\* current_time, the chunks appended so far as <<start, end>>, and how the
\* call ended ("running" while it has not)
InitSplit ==
    /\ NoJobs
    /\ args \in [duration : 0..MaxDuration,
                 chunk_duration : 1..MaxChunkLen,
                 overlap : 0..MaxChunkLen]
    /\ result = <<[current_time |-> 0, chunks |-> <<>>, kind |-> "running"]>>

\* one pass of `while current_time < duration` whose ffmpeg call succeeds
SplitIterate ==
    /\ Returned.kind = "running"
    /\ Returned.current_time < args.duration
    /\ Len(Returned.chunks) < MaxSplitChunks
    /\ result' = <<[Returned EXCEPT
                      !.chunks = Append(@, <<Returned.current_time,
                                             Min2(Returned.current_time + args.chunk_duration,
                                                  args.duration)>>),
                      !.current_time = @ + args.chunk_duration - args.overlap]>>
    /\ UNCHANGED <<ctl, doc, files, tasks, misc, outs, args>>

\* subprocess.run(cmd, check=True, timeout=300) raises
SplitRaises ==
    /\ Returned.kind = "running"
    /\ Returned.current_time < args.duration
    /\ result' = <<[Returned EXCEPT !.kind = "raised"]>>
    /\ UNCHANGED <<ctl, doc, files, tasks, misc, outs, args>>

\* the loop condition is false: return chunks
SplitReturn ==
    /\ Returned.kind = "running"
    /\ ~(Returned.current_time < args.duration)
    /\ result' = <<[Returned EXCEPT !.kind = "returned"]>>
    /\ UNCHANGED <<ctl, doc, files, tasks, misc, outs, args>>

NextSplit == SplitIterate \/ SplitRaises \/ SplitReturn

SpecSplit == InitSplit /\ [][NextSplit]_vars

\* C37: every pass of the loop moves current_time forward, so the loop ends
\* for every duration, chunk length and overlap; the chunks returned start
\* at k * (chunk - overlap), end at min(start + chunk, duration), are in
\* increasing start order and cover [0, duration].
C37_SplitEndsAndCovers ==
    /\ [][Len(Returned'.chunks) > Len(Returned.chunks)
            => Returned'.current_time > Returned.current_time]_vars
    /\ [](Returned.kind = "returned" =>
            LET cs == Returned.chunks IN
            /\ \A k \in 1..Len(cs) :
                  /\ cs[k][1] = (k - 1) * (args.chunk_duration - args.overlap)
                  /\ cs[k][2] = Min2(cs[k][1] + args.chunk_duration, args.duration)
            /\ \A k \in 1..(Len(cs) - 1) : cs[k][1] < cs[k + 1][1] /\ cs[k + 1][1] <= cs[k][2]
            /\ args.duration > 0 => /\ cs # <<>>
                                    /\ cs[1][1] = 0
                                    /\ cs[Len(cs)][2] = args.duration)

\* --------------------------------------------- FFmpegUtils.extract_keyframes
MaxVideoDuration == 3

RECURSIVE KeyframeLoop(_, _, _, _, _)
\* while current_time <= duration: outcomes[n] is how the n-th ffmpeg call
\* ends: "ok", "nonzero" (CalledProcessError, caught and skipped) or
\* "timeout" (TimeoutExpired after 60 s, for which there is no handler)
KeyframeLoop(duration, interval, outcomes, current_time, frames) ==
    IF ~(current_time <= duration) THEN [kind |-> "returns", frames |-> frames]
    ELSE LET o == outcomes[current_time \div interval + 1]
         IN IF o = "timeout" THEN [kind |-> "raises", frames |-> <<>>]
            ELSE KeyframeLoop(duration, interval, outcomes, current_time + interval,
                              IF o = "ok" THEN Append(frames, current_time) ELSE frames)

\* the timestamps of the (path, timestamp) tuples returned
extract_keyframes(duration, interval, outcomes) ==
    KeyframeLoop(duration, interval, outcomes, 0, <<>>)

InitKeyframes ==
    /\ NoJobs
    /\ args \in [duration : 0..MaxVideoDuration,
                 interval : 1..2,
                 outcomes : [1..(MaxVideoDuration + 1) -> {"ok", "nonzero", "timeout"}]]
    /\ result = <<>>

CallKeyframes ==
    /\ ~Called
    /\ result' = <<extract_keyframes(args.duration, args.interval, args.outcomes)>>
    /\ UNCHANGED <<ctl, doc, files, tasks, misc, outs, args>>

SpecKeyframes == InitKeyframes /\ [][CallKeyframes]_vars

\* C38: extract_keyframes returns, in increasing order, the boundaries
\* k * interval <= duration whose frame was decoded, whatever happened to the
\* ffmpeg calls of the other boundaries (non-zero exit or timeout).
C38_PerFrameFailuresTolerated ==
    Called =>
        LET decoded == {k \in 0..(args.duration \div args.interval) :
                            args.outcomes[k + 1] = "ok"}
        IN /\ Returned.kind = "returns"
           /\ Len(Returned.frames) = Cardinality(decoded)
           /\ \A a \in 1..Len(Returned.frames) :
                 /\ Returned.frames[a] \div args.interval \in decoded
                 /\ Returned.frames[a] % args.interval = 0
                 /\ a > 1 => Returned.frames[a - 1] < Returned.frames[a]

\* ------------------------------------------- PlaylistService.process_topic
MaxVideos == 3

\* the Topic document create_topic_from_playlist stored (status pending,
\* every video pending, no job yet) and the locals of process_topic: the
\* loop index i, completed_count, the position `at` of the coroutine.
\* job[k] is the status of the VideoJob of video k - 1 ("none" before it is
\* inserted); chapters[k] are the indices whose summaries went into the
\* playlist context handed to that job, given[k] whether one was built.
\* progress is completed_count / total throughout and is not kept apart.
InitTopic ==
    /\ NoJobs
    /\ args \in [total : 0..MaxVideos]
    /\ result = <<[at |-> "find_topic", i |-> 0, completed_count |-> 0,
                   status |-> "pending",
                   videos |-> [k \in 1..args.total |-> "pending"],
                   job |-> [k \in 1..args.total |-> "none"],
                   given |-> [k \in 1..args.total |-> FALSE],
                   chapters |-> [k \in 1..args.total |-> {}]]>>

TopicStep(next) ==
    /\ result' = <<next>>
    /\ UNCHANGED <<ctl, doc, files, tasks, misc, outs, args>>

\* topics.find_one returns the topic; _update_topic stores status processing
FindTopic ==
    /\ Returned.at = "find_topic"
    /\ TopicStep([Returned EXCEPT !.status = "processing", !.at = "loop"])

\* topics.find_one raises: the outer handler stores status failed
FindTopicFails ==
    /\ Returned.at = "find_topic"
    /\ TopicStep([Returned EXCEPT !.status = "failed", !.at = "done"])

\* for i, video_info in enumerate(videos): the next video is marked
\* processing and becomes current_video_index
StartVideo ==
    /\ Returned.at = "loop"
    /\ Returned.i < args.total
    /\ TopicStep([Returned EXCEPT !.videos[Returned.i + 1] = "processing",
                                  !.at = "insert_job"])

\* video_jobs.insert_one(job) with status pending; videos.i.job_id stored
InsertJob ==
    /\ Returned.at = "insert_job"
    /\ TopicStep([Returned EXCEPT !.job[Returned.i + 1] = "pending",
                                  !.at = "build_context"])

\* the indices _build_playlist_context takes summaries from: those below
\* current_index that have a job_id and status completed
ContextChapters(t, current_index) ==
    {j \in 0..(current_index - 1) :
        t.job[j + 1] # "none" /\ t.videos[j + 1] = "completed"}

\* _build_playlist_context returns (None for the first video, without a read)
BuildContext ==
    /\ Returned.at = "build_context"
    /\ TopicStep([Returned EXCEPT
                    !.given[Returned.i + 1] = (Returned.i # 0),
                    !.chapters[Returned.i + 1] =
                        IF Returned.i = 0 THEN {}
                        ELSE ContextChapters(Returned, Returned.i),
                    !.at = "process_video"])

\* a find_one of _build_playlist_context raises: except Exception of the loop
BuildContextFails ==
    /\ Returned.at = "build_context"
    /\ Returned.i # 0
    /\ TopicStep([Returned EXCEPT !.at = "handler"])

\* await pipeline.process_video(job_id, playlist_context): the run ends with
\* completed or failed stored in the job (its own handler catches)
ProcessVideo ==
    /\ Returned.at = "process_video"
    /\ \E s \in {"completed", "failed"} :
          TopicStep([Returned EXCEPT !.job[Returned.i + 1] = s,
                                     !.at = "check_job"])

\* updated_job is read and the video marked with the job's outcome
CheckJob ==
    /\ Returned.at = "check_job"
    /\ IF Returned.job[Returned.i + 1] = "completed"
       THEN TopicStep([Returned EXCEPT !.completed_count = @ + 1,
                                       !.videos[Returned.i + 1] = "completed",
                                       !.i = @ + 1, !.at = "loop"])
       ELSE TopicStep([Returned EXCEPT !.videos[Returned.i + 1] = "failed",
                                       !.i = @ + 1, !.at = "loop"])

\* video_jobs.find_one raises after the run: except Exception of the loop
CheckJobFails ==
    /\ Returned.at = "check_job"
    /\ TopicStep([Returned EXCEPT !.at = "handler"])

\* except Exception: the video is marked failed, the loop continues
VideoHandler ==
    /\ Returned.at = "handler"
    /\ TopicStep([Returned EXCEPT !.videos[Returned.i + 1] = "failed",
                                  !.i = @ + 1, !.at = "loop"])

\* after the loop: final_status, then _generate_topic_summary when a video
\* completed (it catches its own exceptions and leaves the status alone)
FinishTopic ==
    /\ Returned.at = "loop"
    /\ ~(Returned.i < args.total)
    /\ TopicStep([Returned EXCEPT
                    !.status = IF Returned.completed_count = args.total
                               THEN "completed" ELSE "partial",
                    !.at = IF Returned.completed_count > 0
                           THEN "topic_summary" ELSE "done"])

GenerateTopicSummary ==
    /\ Returned.at = "topic_summary"
    /\ TopicStep([Returned EXCEPT !.at = "done"])

NextTopic ==
    \/ FindTopic
    \/ FindTopicFails
    \/ StartVideo
    \/ InsertJob
    \/ BuildContext
    \/ BuildContextFails
    \/ ProcessVideo
    \/ CheckJob
    \/ CheckJobFails
    \/ VideoHandler
    \/ FinishTopic
    \/ GenerateTopicSummary

SpecTopic == InitTopic /\ [][NextTopic]_vars

\* C39: when process_topic has ended, every video of the topic is completed
\* or failed, none is left pending or processing, and the topic is
\* completed if every video completed and partial otherwise.
C39_FailedVideoNeverStopsPlaylist ==
    Returned.at = "done" =>
        /\ \A k \in 1..args.total : Returned.videos[k] \in {"completed", "failed"}
        /\ Returned.status =
              IF \A k \in 1..args.total : Returned.videos[k] = "completed"
              THEN "completed" ELSE "partial"

\* C40: at most one video of the topic is processing at a time, a video is
\* started only when the job of the video before it has ended completed or
\* failed, and the context given to a video names only earlier videos that
\* are completed.
C40_OneVideoAtATimeInOrder ==
    /\ Cardinality({k \in 1..args.total : Returned.videos[k] = "processing"}) <= 1
    /\ \A k \in 1..(args.total - 1) :
          Returned.videos[k + 1] # "pending" =>
              Returned.job[k] \in {"completed", "failed"}
    /\ \A k \in 1..args.total :
          \A j \in Returned.chapters[k] :
              j + 1 < k /\ Returned.videos[j + 1] = "completed"

====
